---- MODULE Spec2Model ----
(***************************************************************************)
(* PyCanZE UDS client (src/PyCanZE/pycanze/uds.py): the engine that drives *)
(* an ELM327 adapter over a text channel, reads UDS identifiers (services  *)
(* 0x22 and 0x21), reassembles ISO-TP multi-frame answers and decodes bit  *)
(* fields.                                                                 *)
(*                                                                         *)
(* The engine is single-threaded and synchronous.  One step of the model   *)
(* is everything the code does around ONE transport transaction (a send    *)
(* followed by a read, or a read alone while collecting Consecutive        *)
(* Frames); `pc` is the position of the running call, `fr` its locals.     *)
(* The adapter's replies are the inputs: each read draws its reply from a  *)
(* small catalogue of raw texts, which the model parses the way the code   *)
(* does.                                                                   *)
(*                                                                         *)
(* Time: the code only ever compares differences of time.time() values,    *)
(* so times are kept relative to the present instant (Now = 0, a timestamp *)
(* taken k ticks ago is -k) in ticks of 0.5 s; a timestamp older than      *)
(* every interval it is compared with is kept at -Horizon.                 *)
(***************************************************************************)
EXTENDS Integers, Sequences, FiniteSets, TLC

VARIABLES
    self,   \* the UDSClient attributes (uds.py, __init__)
    pc,     \* position of the running call ("idle": no call in progress)
    fr,     \* locals of the running call
    obs,    \* what the running call did: commands sent, replies, result
    elm     \* the adapter, as far as the specification follows it: the headers
            \* and the filter last programmed into it (elm.on), when it last
            \* received TesterPresent (elm.clock), the commands whose replies
            \* have not been read yet (elm.wired), its last reply (elm.heard)

vars == <<self, pc, fr, obs, elm>>

None == -1

\* Ticks of 0.5 s: the 1.0 s validity of the 0x21 cache, the 1.5 s
\* TesterPresent interval, the 2.5 s isotp_collect_timeout_s
CACHE_TTL == 2
TP_INTERVAL == 3
ISOTP_COLLECT == 5

\* time.time(), and the age beyond which a timestamp is no longer told apart
Now == 0
Horizon == TP_INTERVAL

\* Bounds of the model: the longest a read that yields no data takes (ticks),
\* and the deepest nesting of _read_by_id inside itself that is explored
MaxDt == 2
MaxDepth == 3

\* Bound of the parser check: how many whitespace characters are inserted into
\* a response
MaxInsert == 2

\* Bound of the transport check: how many replies may wait unread at a time
MaxPending == 2

\* Bound of the bit extractor check: the longest byte string cut into bit fields
MaxBytes == 2

(***************************************************************************)
(* Characters and text.  A text is a sequence of one-character strings.    *)
(***************************************************************************)
HexDigits == <<"0","1","2","3","4","5","6","7","8","9","A","B","C","D","E","F">>

LowerLetters == <<"a","b","c","d","e","f","g","h","i","j","k","l","m",
                  "n","o","p","q","r","s","t","u","v","w","x","y","z">>

UpperLetters == <<"A","B","C","D","E","F","G","H","I","J","K","L","M",
                  "N","O","P","Q","R","S","T","U","V","W","X","Y","Z">>

\* str.upper() on one character
UpperChar(ch) ==
    IF \E i \in 1..26 : LowerLetters[i] = ch
    THEN UpperLetters[CHOOSE i \in 1..26 : LowerLetters[i] = ch]
    ELSE ch

\* str.upper()
Upper(s) == [i \in 1..Len(s) |-> UpperChar(s[i])]

\* `t in s` for strings
Contains(s, t) ==
    \E i \in 0..(Len(s) - Len(t)) : SubSeq(s, i + 1, i + Len(t)) = t

IsSpace(ch) == ch \in {" ", "\t", "\n", "\r"}

\* str.strip()
RECURSIVE LStrip(_)
LStrip(s) == IF s # <<>> /\ IsSpace(Head(s)) THEN LStrip(Tail(s)) ELSE s

RECURSIVE RStrip(_)
RStrip(s) ==
    IF s # <<>> /\ IsSpace(s[Len(s)]) THEN RStrip(SubSeq(s, 1, Len(s) - 1)) ELSE s

Strip(s) == RStrip(LStrip(s))

\* text.split("\n") after .replace("\r", "\n")
RECURSIVE SplitLines(_, _)
SplitLines(text, cur) ==
    IF text = <<>> THEN <<cur>>
    ELSE IF Head(text) \in {"\r", "\n"}
         THEN <<cur>> \o SplitLines(Tail(text), <<>>)
         ELSE SplitLines(Tail(text), Append(cur, Head(text)))

RECURSIVE KeepLines(_)
KeepLines(ls) ==
    IF ls = <<>> THEN <<>>
    ELSE LET ln == Strip(Head(ls))
         IN  IF ln # <<>> /\ ln # <<">">>
             THEN <<ln>> \o KeepLines(Tail(ls))
             ELSE KeepLines(Tail(ls))

\* _read_lines, the part after the receive loop: the stripped non-empty lines
\* of the buffer that are not the bare prompt
LinesOf(text) == KeepLines(SplitLines(text, <<>>))

StatusTokens ==
    { <<"N","O"," ","D","A","T","A">>,
      <<"E","R","R","O","R">>,
      <<"S","E","A","R","C","H","I","N","G">>,
      <<"B","U","S"," ","I","N","I","T">>,
      <<"C","A","N"," ","E","R","R","O","R">> }

IsHexChar(ch) == \E i \in 1..16 : HexDigits[i] = UpperChar(ch)

HexVal(ch) == (CHOOSE i \in 1..16 : HexDigits[i] = UpperChar(ch)) - 1

\* A faulty variant of SelectHex that stops at the first character that is not
\* a hex digit; the whitespace property (C20) must fail with it
RECURSIVE SelectHexToBlank(_)
SelectHexToBlank(ln) ==
    IF ln = <<>> THEN <<>>
    ELSE IF IsHexChar(Head(ln)) THEN <<Head(ln)>> \o SelectHexToBlank(Tail(ln))
         ELSE <<>>

\* "".join(ch for ch in ln if ch.upper() in "0123456789ABCDEF")
RECURSIVE SelectHex(_)
SelectHex(ln) ==
    IF ln = <<>> THEN <<>>
    ELSE IF IsHexChar(Head(ln)) THEN <<Head(ln)>> \o SelectHex(Tail(ln))
         ELSE SelectHex(Tail(ln))

\* int(only_hex[i : i + 2], 16) for i in range(0, len(only_hex), 2): the last
\* slice of an odd-length string is a single digit
RECURSIVE PairsToBytes(_)
PairsToBytes(h) ==
    IF h = <<>> THEN <<>>
    ELSE IF Len(h) = 1 THEN <<HexVal(h[1])>>
         ELSE <<16 * HexVal(h[1]) + HexVal(h[2])>> \o PairsToBytes(SubSeq(h, 3, Len(h)))

\* _only_hex_bytes
RECURSIVE only_hex_bytes(_)
only_hex_bytes(lines) ==
    IF lines = <<>> THEN <<>>
    ELSE LET ln == Head(lines)
             up == Upper(ln)
         IN  IF \E k \in StatusTokens : Contains(up, k)
             THEN only_hex_bytes(Tail(lines))
             ELSE PairsToBytes(SelectHex(ln)) \o only_hex_bytes(Tail(lines))

\* _read_by_id, "Detect common ELM/CAN error statuses early": the status the
\* lines set, or "keep" when they set none
StatusOf(lines) ==
    LET up == [i \in 1..Len(lines) |-> Upper(lines[i])]
        any(tok) == \E i \in 1..Len(up) : Contains(up[i], tok)
        anyCan == \E i \in 1..Len(up) :
                     \/ Contains(up[i], <<"C","A","N">>) /\ Contains(up[i], <<"E","R","R","O","R">>)
                     \/ Contains(up[i], <<"C","A","N"," ","E","R","R","O","R">>)
    IN  IF anyCan THEN "CAN_ERROR"
        ELSE IF any(<<"N","O"," ","D","A","T","A">>) THEN "NO_DATA"
        ELSE IF any(<<"E","R","R","O","R">>) THEN "ELM_ERROR"
        ELSE "keep"

(***************************************************************************)
(* Bit fields.                                                             *)
(***************************************************************************)
\* bit i of data, bit 0 being the MSB of data[0]
BitAt(data, i) == (data[(i \div 8) + 1] \div (2 ^ (7 - (i % 8)))) % 2

\* _extract_bits: (int.from_bytes(data, "big") >> (8 * len - end_bit - 1))
\* & ((1 << (end_bit - start_bit + 1)) - 1), computed bit by bit (the integer
\* of a whole response does not fit a machine word)
RECURSIVE BitsValue(_, _, _)
BitsValue(data, s, e) ==
    IF s > e THEN 0
    ELSE 2 * BitsValue(data, s, e - 1) + BitAt(data, e)

extract_bits(data, start_bit, end_bit) ==
    BitsValue(data, IF start_bit < 0 THEN 0 ELSE start_bit, end_bit)

(***************************************************************************)
(* _read_by_id: the two ways a parsed byte stream becomes a payload.       *)
(* Sequences are 1-based here; the comments give the code's 0-based index. *)
(***************************************************************************)
Min(a, b) == IF a < b THEN a ELSE b
Max(a, b) == IF a > b THEN a ELSE b

\* resp_sid = (service + 0x40) & 0xFF
RespSid(service) == (service + \H40) % 256

\* cmd: "03" service hi lo for a 16-bit DID, "02" service lid for an 8-bit LID
\* (the request as the bytes its hex text spells)
RequestBytes(service, ident, ident_len) ==
    IF ident_len = 2
    THEN <<3, service, (ident \div 256) % 256, ident % 256>>
    ELSE <<2, service, ident % 256>>

\* j = i + 1; while j < len(b) and b[j] not in (0x7F, resp_sid): j += 1
RECURSIVE SegmentEnd(_, _, _)
SegmentEnd(b, j, resp_sid) ==
    IF j < Len(b) /\ b[j + 1] \notin {\H7F, resp_sid}
    THEN SegmentEnd(b, j + 1, resp_sid)
    ELSE j

\* A faulty variant of NegativeAt that never sees a negative response; the
\* negative-response property (C3) must fail with it
NegativeNever(b, i) == FALSE

\* if b[i] == 0x7F and (i + 2) < len(b)
NegativeAt(b, i) == b[i + 1] = \H7F /\ i + 2 < Len(b)

\* The segment-concatenation scan (the code's `while i <= max(0, len(b) - 2)`),
\* from 0-based position i with the segments flattened so far in `out`.
\* Result: "raise" (b[i] read past the end of b), "none" (a 0x7F marker), or
\* "done" with the bytes collected.
RECURSIVE SegmentScan(_, _, _, _, _, _)
SegmentScan(b, i, out, resp_sid, ident, ident_len) ==
    IF i > Max(0, Len(b) - 2) THEN [k |-> "done", out |-> out]
    ELSE IF i >= Len(b) THEN [k |-> "raise", out |-> <<>>]
    ELSE IF NegativeAt(b, i) THEN [k |-> "none", out |-> <<>>]
    ELSE IF b[i + 1] = resp_sid
         THEN IF /\ ident_len = 2
                 /\ i + 2 < Len(b)
                 /\ (b[i + 2] # (ident \div 256) % 256 \/ b[i + 3] # ident % 256)
              THEN SegmentScan(b, i + 1, out, resp_sid, ident, ident_len)
              ELSE LET j == SegmentEnd(b, i + 1, resp_sid)
                   IN  SegmentScan(b, j, out \o SubSeq(b, i + 1, j),
                                   resp_sid, ident, ident_len)
         ELSE SegmentScan(b, i + 1, out, resp_sid, ident, ident_len)

\* The non-First-Frame tail of _read_by_id: [k |-> "raise" | "none" | "ok", out]
Segments(b, resp_sid, ident, ident_len) ==
    LET r == SegmentScan(b, 0, <<>>, resp_sid, ident, ident_len)
    IN  IF r.k = "done"
        THEN IF r.out # <<>> THEN [k |-> "ok", out |-> r.out]
             ELSE [k |-> "none", out |-> <<>>]
        ELSE r

\* len(b) >= 3 and (b[0] >> 4) == 0x1
IsFirstFrame(b) == Len(b) >= 3 /\ b[1] \div 16 = 1

\* total_len = ((b[0] & 0x0F) << 8) | (b[1] & 0xFF)
TotalLen(b) == (b[1] % 16) * 256 + b[2]

\* collected = list(b[2:])
FirstCollected(b) == SubSeq(b, 3, Len(b))

\* The scan of one later read for Consecutive Frames (`while j < len(bb)`),
\* from 0-based position j.  err: the sequence-number mismatch of line 410.
RECURSIVE CfScan(_, _, _, _, _)
CfScan(bb, j, collected, expected_sn, total_len) ==
    IF j >= Len(bb)
    THEN [err |-> FALSE, collected |-> collected, expected_sn |-> expected_sn]
    ELSE LET pci == bb[j + 1]
         IN  IF pci \div 16 = 2
             THEN IF pci % 16 # expected_sn % 16
                  THEN [err |-> TRUE, collected |-> collected, expected_sn |-> expected_sn]
                  ELSE LET take == Min(7, Min(Len(bb) - (j + 1), total_len - Len(collected)))
                           got  == IF take > 0 THEN SubSeq(bb, j + 2, j + 1 + take) ELSE <<>>
                       IN  CfScan(bb, j + 1 + take, collected \o got,
                                  (expected_sn + 1) % 16, total_len)
             ELSE CfScan(bb, j + 1, collected, expected_sn, total_len)

\* out = collected[:total_len]
Truncated(collected, total_len) == SubSeq(collected, 1, Min(total_len, Len(collected)))

\* A faulty variant of Complete that accepts a payload shorter than declared;
\* the no-partial-payload property (C9) must fail with it
CompleteAnyLength(out, total_len, resp_sid) == out # <<>> /\ out[1] = resp_sid

\* if out and out[0] == resp_sid and len(out) >= total_len
Complete(out, total_len, resp_sid) ==
    out # <<>> /\ out[1] = resp_sid /\ Len(out) >= total_len

\* A faulty variant of RetryWanted that ignores the retry already under way;
\* the retry-once property (C8) must fail with it
RetryAlways(collected, total_len, fc_retry_enabled, fc_retry_active) ==
    Len(collected) < total_len /\ fc_retry_enabled

\* if len(collected) < total_len and self.fc_retry_enabled
\*    and not getattr(self, "_fc_retry_active", False)
RetryWanted(collected, total_len, fc_retry_enabled, fc_retry_active) ==
    Len(collected) < total_len /\ fc_retry_enabled /\ ~fc_retry_active

\* while len(collected) < total_len and time.time() < deadline
KeepCollecting(collected, total_len, t, deadline) ==
    Len(collected) < total_len /\ t < deadline

\* A faulty variant of CacheHit that reuses payloads of service 0x22 instead of
\* 0x21; the cache property (C10) must fail with it
CacheHitWrongService(slf, t, service, ident) ==
    /\ service = \H22
    /\ slf.current_req_id # None
    /\ slf.last_tuple = <<slf.current_req_id, service, ident>>
    /\ t - slf.last_resp_ts < CACHE_TTL
    /\ slf.last_resp # <<>>

\* A faulty variant of CacheHit that reuses a cached payload however old it is;
\* the cache-gating property (C11) must fail with it
CacheHitAnyAge(slf, t, service, ident) ==
    /\ service = \H21
    /\ slf.current_req_id # None
    /\ slf.last_tuple = <<slf.current_req_id, service, ident>>
    /\ slf.last_resp # <<>>

\* The reuse test of the 0x21 cache (lines 364-370) at time t
CacheHit(slf, t, service, ident) ==
    /\ service = \H21
    /\ slf.current_req_id # None
    /\ slf.last_tuple = <<slf.current_req_id, service, ident>>
    /\ t - slf.last_resp_ts < CACHE_TTL
    /\ slf.last_resp # <<>>

(***************************************************************************)
(* Commands, as the text handed to _send.                                  *)
(***************************************************************************)
Hex2(b) == <<HexDigits[((b \div 16) % 16) + 1], HexDigits[(b % 16) + 1]>>

\* f"{x:03X}"
Hex3(x) == <<HexDigits[((x \div 256) % 16) + 1]>> \o Hex2(x % 256)

RECURSIVE HexText(_)
HexText(bytes) == IF bytes = <<>> THEN <<>> ELSE Hex2(Head(bytes)) \o HexText(Tail(bytes))

\* cmd = f"03{service:02X}{hi:02X}{lo:02X}" / f"02{service:02X}{ident & 0xFF:02X}"
RequestCmd(service, ident, ident_len) == HexText(RequestBytes(service, ident, ident_len))

AT_SH    == <<"A","T","S","H">>
AT_FCSH  == <<"A","T","F","C","S","H">>
AT_CRA   == <<"A","T","C","R","A"," ">>
AT_CF    == <<"A","T","C","F"," ">>
AT_CM7FF == <<"A","T","C","M"," ","7","F","F">>
AT_CFC1  == <<"A","T","C","F","C","1">>
AT_FCSD5 == <<"A","T","F","C","S","D"," ","3","0","0","0","0","5">>
AT_AL    == <<"A","T","A","L">>
TesterPresentCmd == <<"0","2","3","E","0","0">>

\* _read_by_id, the flow-control reassert: for cmd in ("ATCFC1", "ATFCSD 300005", "ATAL")
FcReassertCmds == <<AT_CFC1, AT_FCSD5, AT_AL>>

\* _select_frame: ATSH, ATFCSH, then ATCRA or the ATCF/ATCM pair
SelectCmds(req_id, rpid, use_mask_filter) ==
    <<AT_SH \o Hex3(req_id % 2048), AT_FCSH \o Hex3(req_id % 2048)>> \o
    (IF use_mask_filter THEN <<AT_CF \o Hex3(rpid), AT_CM7FF>> ELSE <<AT_CRA \o Hex3(rpid)>>)

\* _ensure_session: (mode, expect) in the order tried
SessionModes == << [cmd |-> <<"0","2","1","0","C","0">>, expect |-> <<"5","0","C","0">>],
                   [cmd |-> <<"0","2","1","0","F","2">>, expect |-> <<"5","0","F","2">>],
                   [cmd |-> <<"0","2","1","0","F","3">>, expect |-> <<"5","0","F","3">>],
                   [cmd |-> <<"0","2","1","0","8","1">>, expect |-> <<"5","0","8","1">>] >>

\* A faulty variant of InitCmds that selects the protocol after the default
\* addressing; the initialization property (C25) must fail with it
InitCmdsProtocolLast ==
    << <<"A","T","Z">>, <<"A","T","E","0">>, <<"A","T","S","0">>, <<"A","T","H","0">>,
       <<"A","T","L","0">>, <<"A","T","A","L">>, <<"A","T","C","A","F","0">>,
       <<"A","T","F","C","S","H","7","7","B">>,
       <<"A","T","F","C","S","D"," ","3","0","0","0","0","0">>, <<"A","T","F","C","S","M","1">>,
       <<"A","T","S","H","7","E","4">>, <<"A","T","F","C","S","H","7","E","4">>,
       <<"A","T","C","R","A"," ","7","E","C">>, <<"A","T","S","P","6">> >>

\* initialize: ATZ, init_cmds with caf_mode 0 and stmin 0 (the tunables' defaults,
\* no ATST configured), then the default header 0x7E4 / 0x7EC
InitCmds == << <<"A","T","Z">>, <<"A","T","E","0">>, <<"A","T","S","0">>, <<"A","T","H","0">>, <<"A","T","L","0">>, <<"A","T","A","L">>, <<"A","T","C","A","F","0">>, <<"A","T","F","C","S","H","7","7","B">>,
               <<"A","T","F","C","S","D"," ","3","0","0","0","0","0">>, <<"A","T","F","C","S","M","1">>, <<"A","T","S","P","6">>,
               <<"A","T","S","H","7","E","4">>, <<"A","T","F","C","S","H","7","E","4">>, <<"A","T","C","R","A"," ","7","E","C">> >>

\* the position in InitCmds before which initialize sets last_status = None
InitStatusResetAt == 12

RECURSIVE HexNumber(_, _)
HexNumber(digits, acc) ==
    IF digits = <<>> THEN acc
    ELSE HexNumber(Tail(digits), 16 * acc + HexVal(Head(digits)))

(***************************************************************************)
(* The database the engine is constructed with, and the timing constants.  *)
(***************************************************************************)
\* self._ecu_by_can / self._session_required_by_req after __init__'s swap:
\* the (req, resp) pairs of the ECUs load_ecus() returned
Ecus == { [req |-> \H7E4, resp |-> \H7EC, session_required |-> FALSE],
          [req |-> \H79B, resp |-> \H7BB, session_required |-> TRUE] }

\* self.fields: SID -> Field (resolution in units of 0.01)
Fields ==
    [ soc |-> [frame_id |-> \H7EC, start_bit |-> 24, end_bit |-> 39,
               resolution |-> 2, offset |-> 0, request_id |-> <<"2","2","2","0","0","2">>],
      lbc |-> [frame_id |-> \H7BB, start_bit |-> 16, end_bit |-> 31,
               resolution |-> 100, offset |-> 0, request_id |-> <<"2","1","0","1">>],
      free |-> [frame_id |-> \H42E, start_bit |-> 0, end_bit |-> 12,
                resolution |-> 2, offset |-> 0, request_id |-> <<>>],
      dtc |-> [frame_id |-> \H7EC, start_bit |-> 16, end_bit |-> 23,
               resolution |-> 100, offset |-> 0, request_id |-> <<"1","9","0","2">>] ]

Sids == DOMAIN Fields

\* the SIDs callers pass to read_field: those of the database and one it does
\* not hold
AnySids == Sids \cup {"nope"}

\* read_field: field = self.fields.get(sid);
\* `if field is None or not field.request_id` does not hold
FieldKnown(sid) == sid \in Sids /\ Fields[sid].request_id # <<>>

\* A faulty variant of ServiceSupported that lets every service through; the
\* rejection property (C18) must fail with it
ServiceSupportedAny(request_id) == TRUE

\* rid = field.request_id.upper(); rid.startswith("22") or rid.startswith("21")
ServiceSupported(request_id) ==
    LET rid == Upper(request_id)
    IN  \/ Len(rid) >= 2 /\ SubSeq(rid, 1, 2) = <<"2","2">>
        \/ Len(rid) >= 2 /\ SubSeq(rid, 1, 2) = <<"2","1">>

\* read_field: service = int(rid[:2], 16); ident = int(rid[2:], 16);
\* ident_len = 2 if len(id_hex) == 4 else 1
FieldService(f) == HexNumber(SubSeq(f.request_id, 1, 2), 0)
FieldIdent(f) == HexNumber(SubSeq(f.request_id, 3, Len(f.request_id)), 0)
FieldIdentLen(f) == IF Len(f.request_id) - 2 = 4 THEN 2 ELSE 1

\* A faulty variant of pair_for_frame that never looks into the ECU map; the
\* pair resolution property (C28) must fail with it
pair_for_frame_heuristic(frame_id) ==
    <<((frame_id % 2048) - 8) % 2048, frame_id % 2048>>

\* _pair_for_frame
pair_for_frame(frame_id) ==
    LET fid == frame_id % 2048
    IN  IF \E e \in Ecus : fid \in {e.req, e.resp}
        THEN LET e == CHOOSE e \in Ecus : fid \in {e.req, e.resp}
             IN  <<e.req, e.resp>>
        ELSE <<(fid - 8) % 2048, fid>>

\* self._session_required_by_req.get(req_id)
SessionRequired(req_id) == \E e \in Ecus : e.req = req_id /\ e.session_required

(***************************************************************************)
(* The adapter's replies: what one _read_lines call receives.  A reply is  *)
(* the raw text up to the prompt, or a timeout (recv raises).              *)
(***************************************************************************)
Timeout == [timeout |-> TRUE, text |-> <<>>]

RECURSIVE JoinFrames(_)
JoinFrames(frames) ==
    IF frames = <<>> THEN <<>>
    ELSE HexText(Head(frames)) \o <<"\r">> \o JoinFrames(Tail(frames))

\* the frames, one per line, glued hex, then the prompt
Reply(frames) == [timeout |-> FALSE, text |-> JoinFrames(frames) \o <<"\r", ">">>]

TextReply(text) == [timeout |-> FALSE, text |-> text]

SfSoc    == <<\H06, \H62, \H20, \H02, \H0F, \HA0, \H00, \H00>>
SfSoc7F  == <<\H06, \H62, \H20, \H02, \H7F, \HA0, \H00, \H00>>
SfSoc62  == <<\H06, \H62, \H20, \H02, \H0F, \H62, \H00, \H00>>
SfShort  == <<\H02, \H62, \H99>>
SfLbc    == <<\H05, \H61, \H01, \H12, \H34, \H56>>
Neg22    == <<\H7F, \H22, \H31>>
Neg21    == <<\H7F, \H21, \H12>>
FfSoc    == <<\H10, \H0A, \H62, \H20, \H02, \H01, \H02, \H03>>
Cf1Soc   == <<\H21, \H04, \H05, \H06, \H07, \HAA, \HAA, \HAA>>
Cf5Soc   == <<\H25, \H04, \H05, \H06, \H07, \HAA, \HAA, \HAA>>
FfOdo    == <<\H10, \H0A, \H62, \H20, \H06, \H01, \H02, \H03>>
FfLbc    == <<\H10, \H0A, \H61, \H01, \H12, \H34, \H56, \H78>>
Cf1Lbc   == <<\H21, \H9A, \HBC, \HDE, \HF0, \HAA, \HAA, \HAA>>
FfLong   == <<\H10, \H14, \H62, \H20, \H02, \H01, \H02, \H03>>
Cf1Long  == <<\H21, \H04, \H05, \H06, \H07, \H08, \H09, \H0A>>
Cf2Long  == <<\H22, \H0B, \H0C, \H0D, \H0E, \H0F, \H10, \H11>>
Ff7F     == <<\H10, \H0A, \H62, \H20, \H02, \H7F, \H22, \H31>>

\* the first read after a 0x22 request
UdsReplies ==
    { Reply(<<SfSoc>>), Reply(<<SfSoc7F>>), Reply(<<SfSoc62>>), Reply(<<SfShort>>),
      Reply(<<Neg22>>),
      TextReply(<<"0","6","6","2"," ","2","0","0","2"," ","0","f","a","0"," ","0","0","0","0","\r","\r",">">>),
      Reply(<<FfSoc>>), Reply(<<FfSoc, Cf1Soc>>), Reply(<<FfSoc, Cf5Soc>>),
      Reply(<<FfOdo>>), Reply(<<FfLong, Cf1Long>>), Reply(<<Ff7F>>),
      TextReply(<<"C","A","N"," ","E","R","R","O","R",">">>),
      TextReply(<<"N","O"," ","D","A","T","A","\r","\r",">">>),
      TextReply(<<"E","R","R","O","R","\r","\r",">">>),
      TextReply(<<"N","O"," ","D","A","T","A","\r","7","F","2","2","3","1","\r","\r",">">>),
      Timeout }

\* a later read while the Consecutive Frames of a 0x22 response are collected
CfReplies ==
    { Reply(<<Cf1Soc>>), Reply(<<Cf5Soc>>), Reply(<<Cf2Long>>),
      TextReply(<<"\r",">">>), Timeout }

\* the first read after a 0x21 request, and the later reads
UdsRepliesLbc ==
    { Reply(<<SfLbc>>), Reply(<<FfLbc>>), Reply(<<Neg21>>),
      TextReply(<<"N","O"," ","D","A","T","A","\r","\r",">">>), Timeout }

CfRepliesLbc == { Reply(<<Cf1Lbc>>), Timeout }

\* the first read after a 0x21 request, for a client driven through all its
\* calls
UdsRepliesLbcApi == { Reply(<<SfLbc>>), Timeout }

\* the first read after a 0x22 request, for a client that reads both fields
UdsRepliesSoc == { Reply(<<SfSoc>>), Timeout }

\* the first read after a 0x21 request, for the same client
UdsRepliesLbcShort == { Reply(<<SfLbc>>), Reply(<<FfLbc>>), Timeout }

\* the read after an AT command, and after the flow-control reassert commands
AtReplies == { TextReply(<<"O","K","\r","\r",">">>), Timeout }

\* the read after a command of initialize, for an adapter that may reject it
AtRepliesNak == AtReplies \cup { TextReply(<<"?","\r","\r",">">>) }

\* the read after a session request (0x10): a positive response to 0xC0 and
\* to 0x81, a negative response, a frame whose hex text holds 50C0 across its
\* bytes, no answer
SessionReplies ==
    { Reply(<<<<\H02, \H50, \HC0>>>>), Reply(<<<<\H02, \H50, \H81>>>>),
      Reply(<<<<\H03, \H7F, \H10, \H12>>>>),
      Reply(<<<<\H03, \H65, \H0C, \H01>>>>), Timeout }

\* the read after TesterPresent
TpReplies == { Reply(<<<<\H02, \H7E, \H00>>>>), Timeout }

\* the hex lines of a reply, as bytes, one entry per line that yields bytes
RECURSIVE FramesOf(_)
FramesOf(lines) ==
    IF lines = <<>> THEN <<>>
    ELSE LET bytes == only_hex_bytes(<<Head(lines)>>)
         IN  IF bytes = <<>> THEN FramesOf(Tail(lines))
             ELSE <<bytes>> \o FramesOf(Tail(lines))

\* what the code computes from the text of one read: _read_lines (lines), the
\* status test of _read_by_id (status) and _only_hex_bytes (b)
Received(r) ==
    LET lines == IF r.timeout THEN <<>> ELSE LinesOf(r.text)
    IN  [timeout |-> r.timeout, lines |-> lines, status |-> StatusOf(lines),
         b |-> only_hex_bytes(lines), frames |-> FramesOf(lines)]

UdsInputs == { Received(r) : r \in UdsReplies }
CfInputs == { Received(r) : r \in CfReplies }
UdsInputsLbc == { Received(r) : r \in UdsRepliesLbc }
CfInputsLbc == { Received(r) : r \in CfRepliesLbc }
UdsInputsSoc == { Received(r) : r \in UdsRepliesSoc }
UdsInputsLbcShort == { Received(r) : r \in UdsRepliesLbcShort }
AtInputs == { Received(r) : r \in AtReplies }
AtInputsNak == { Received(r) : r \in AtRepliesNak }
SessionInputs == { Received(r) : r \in SessionReplies }
TpInputs == { Received(r) : r \in TpReplies }

(***************************************************************************)
(* ISO-TP, as the protocol defines it: what the frames received for one    *)
(* request should reassemble to.  F is a sequence of frames, each with its *)
(* bytes (PCI first).                                                      *)
(***************************************************************************)
IsCf(frame) == frame[1] \div 16 = 2

StartsWithFF(F) == F # <<>> /\ IsFirstFrame(F[1].bytes)

\* the frames after the first are Consecutive Frames numbered 1, 2, ... mod 16
InOrder(F) ==
    \A i \in 2..Len(F) : IsCf(F[i].bytes) /\ F[i].bytes[1] % 16 = (i - 1) % 16

\* some Consecutive Frame does not carry the number expected of it
HasWrongSn(F) ==
    \E i \in 2..Len(F) : IsCf(F[i].bytes) /\ F[i].bytes[1] % 16 # (i - 1) % 16

\* the data bytes of the frames from the i-th on, PCI bytes removed
RECURSIVE CfData(_, _)
CfData(F, i) ==
    IF i > Len(F) THEN <<>>
    ELSE SubSeq(F[i].bytes, 2, Len(F[i].bytes)) \o CfData(F, i + 1)

\* the payload the frames carry
Reassembled(F) ==
    Truncated(FirstCollected(F[1].bytes) \o CfData(F, 2), TotalLen(F[1].bytes))

(***************************************************************************)
(* The state machine.  A step works on the bundle of all variables and     *)
(* commits the bundle it ends with.                                        *)
(***************************************************************************)
IdleFr ==
    [op |-> "none", sid |-> "none", req_id |-> None, resp_id |-> None, force |-> FALSE,
     service |-> 0, ident |-> 0, ident_len |-> 0, k |-> 0,
     collected |-> <<>>, total_len |-> 0, expected_sn |-> 0, deadline |-> 0,
     depth |-> 0, resp |-> <<>>, tp_now |-> 0]

NoResult == [kind |-> "pending", val |-> 0]

\* The record of one top-level call.  sent: the commands handed to _send, each
\* with the part of the code that sent it; att: one entry per UDS request
\* transmitted and answered, with the frames (hex lines) received for it, each
\* marked as coming in the read that followed the request or a later one; pay: what
\* _read_by_id returned; status0, cache0: last_status and the cache when the
\* call was made; chk: the age of the cache entry and the header at the
\* outermost cache test; t0: when the call was made; since: how long after the
\* call before (prev) it was made; req, force: the request id the call
\* addresses and its `force` argument; failed: the parts of the call in which
\* a transport read failed; unacked: a command of initialize was not answered
\* with OK; frame: the frame id the call was made for.  An att entry's readOn tells that a
\* transport read was made for the request after a Consecutive Frame with a
\* wrong sequence number had been received; own, that no reply to an earlier
\* command was still unread when the request was transmitted, so that the
\* reply read is the adapter's reply to the request.
BlankObs(prev) ==
    [op |-> "none", sid |-> "none", sent |-> <<>>,
     result |-> NoResult, status0 |-> "None",
     cache0 |-> [tuple |-> <<>>, resp |-> <<>>],
     prev |-> prev, att |-> <<>>, pay |-> [kind |-> "unset", bytes |-> <<>>],
     chk |-> [done |-> FALSE, age |-> 0, cur |-> None], slept |-> <<>>, t0 |-> 0,
     since |-> 0, req |-> None, force |-> FALSE, failed |-> {}, unacked |-> FALSE,
     frame |-> None]

NewObs(op, sid, slf, prev) ==
    [BlankObs(prev) EXCEPT
        !.op = op, !.sid = sid, !.status0 = slf.last_status,
        !.since = Now - prev.t,
        !.cache0 = [tuple |-> slf.last_tuple, resp |-> slf.last_resp]]

NoPrev == [op |-> "none", sid |-> "none", kind |-> "none", t |-> -Horizon,
           req |-> None, force |-> FALSE]

Bundle == [self |-> self, pc |-> pc, fr |-> fr, obs |-> obs, elm |-> elm]

Commit(st) ==
    /\ self' = st.self
    /\ pc' = st.pc
    /\ fr' = st.fr
    /\ obs' = st.obs
    /\ elm' = st.elm

\* dt ticks pass: every time kept is dt further from the present
Elapse(st, dt) ==
    [st EXCEPT !.self.last_tp = Max(@ - dt, -Horizon),
               !.self.last_resp_ts = Max(@ - dt, -Horizon),
               !.fr.deadline = Max(@ - dt, Now),
               !.fr.tp_now = Max(@ - dt, -Horizon),
               !.obs.t0 = IF st.pc = "idle" THEN @ ELSE Max(@ - dt, -Horizon),
               !.obs.prev.t = Max(@ - dt, -Horizon),
               !.elm.tp = Max(@ - dt, -Horizon)]

\* how long a read takes: one that times out or brings no frame takes time; a
\* command is answered at once; frames still on their way may take time
Durations(r, waiting) ==
    IF r.timeout \/ (waiting /\ r.b = <<>>) THEN 1..MaxDt
    ELSE IF waiting THEN 0..MaxDt ELSE {0}

\* s begins with p
StartsWith(s, p) == Len(s) >= Len(p) /\ SubSeq(s, 1, Len(p)) = p

\* the text after the first n characters, as a hexadecimal number
HexAfter(s, n) == HexNumber(SubSeq(s, n + 1, Len(s)), 0)

\* the adapter after a reset: no header and no filter programmed
ElmReset == [on |-> TRUE, sh |-> None, fcsh |-> None, filter |-> None,
             clock |-> FALSE, tp |-> -Horizon,
             wired |-> FALSE, pending |-> <<>>,
             heard |-> FALSE, answer |-> <<>>]

\* the adapter when the specification does not follow its registers
ElmUnfollowed == [ElmReset EXCEPT !.on = FALSE]

\* the adapter when the specification follows the time it last received
\* TesterPresent, the replies it owes, or its last reply
ElmClocked == [ElmUnfollowed EXCEPT !.clock = TRUE]
ElmWired == [ElmUnfollowed EXCEPT !.wired = TRUE]
ElmHeard == [ElmUnfollowed EXCEPT !.heard = TRUE]

\* what a command handed to _send programs into the adapter: ATZ resets it,
\* ATSH sets the request header, ATFCSH the flow-control header, ATCRA or
\* ATCF the response filter
Program(e, cmd) ==
    IF ~e.on THEN e
    ELSE IF cmd = <<"A","T","Z">>
         THEN [e EXCEPT !.sh = None, !.fcsh = None, !.filter = None]
    ELSE IF StartsWith(cmd, AT_FCSH) THEN [e EXCEPT !.fcsh = HexAfter(cmd, Len(AT_FCSH))]
    ELSE IF StartsWith(cmd, AT_SH) THEN [e EXCEPT !.sh = HexAfter(cmd, Len(AT_SH))]
    ELSE IF StartsWith(cmd, AT_CRA) THEN [e EXCEPT !.filter = HexAfter(cmd, Len(AT_CRA))]
    ELSE IF StartsWith(cmd, AT_CF) THEN [e EXCEPT !.filter = HexAfter(cmd, Len(AT_CF))]
    ELSE e

\* the adapter receives a command: it notes the time of a TesterPresent, and
\* owes a reply to the command (named by the part of the code that sent it)
Received023E00(e, cmd) ==
    IF e.clock /\ cmd = TesterPresentCmd THEN [e EXCEPT !.tp = Now] ELSE e

Owed(e, by) == IF e.wired THEN [e EXCEPT !.pending = Append(@, by)] ELSE e

\* _send(cmd): sock.sendall(line + "\r")
Send(st, cmd, by) ==
    [st EXCEPT !.obs.sent = Append(@, [cmd |-> cmd, by |-> by]),
               !.elm = Owed(Received023E00(Program(@, cmd), cmd), by)]

\* what one _read_lines call does to the replies on their way: recv delivers
\* the text up to the first prompt, which is the oldest reply not read yet; a
\* read that times out delivers nothing, and the reply it waited for stays on
\* its way (beyond MaxPending replies waiting, it is taken as lost)
Delivered(e, r) ==
    LET e1 == IF ~e.wired THEN e
              ELSE IF ~r.timeout THEN [e EXCEPT !.pending = Tail(@)]
              ELSE IF Len(e.pending) > MaxPending
                   THEN [e EXCEPT !.pending = SubSeq(@, 1, MaxPending)]
                   ELSE e
    IN  IF e1.heard
        THEN [e1 EXCEPT !.answer = IF r.timeout THEN <<>> ELSE r.frames]
        ELSE e1

\* _read_lines: one transport read that receives r, taking dt ticks
Read(st, r, dt) == Elapse([st EXCEPT !.elm = Delivered(@, r)], dt)

\* self.sock.recv raised (timeout or I/O error) in a read of `part`
Failed(st, part) == [st EXCEPT !.obs.failed = @ \cup {part}]

\* the frames of one read, each marked with the read it came in
Tagged(frames, later) ==
    [i \in 1..Len(frames) |-> [bytes |-> frames[i], later |-> later]]

\* ---- read_field, from its end to its start

\* read_field, lines 600-607 (the value in units of 0.01)
Decode(f, resp) ==
    IF resp = <<>> THEN [kind |-> "none", val |-> 0]
    ELSE IF Len(resp) * 8 <= f.end_bit THEN [kind |-> "none", val |-> 0]
    ELSE [kind |-> "value",
          val |-> f.offset + f.resolution * extract_bits(resp, f.start_bit, f.end_bit)]

FieldResult(st) == Decode(Fields[st.fr.sid], st.fr.resp)

\* the call returns (or raises) to its caller
Done(st, result) == [st EXCEPT !.pc = "done", !.fr = IdleFr, !.obs.result = result]

\* A faulty variant of TpDue that finds the keep-alive due at every call; the
\* TesterPresent property (C24) must fail with it
TpDueAlways(slf, t) == TRUE

\* _tester_present, up to the send: now - self._last_tp < self._tp_interval
TpDue(slf, t) == ~(t - slf.last_tp < TP_INTERVAL)

EnterTp(st) ==
    IF ~TpDue(st.self, Now) \/ ~st.self.sock
    THEN Done(st, FieldResult(st))
    ELSE [st EXCEPT !.pc = "tp", !.fr.tp_now = Now]

\* A faulty variant of Unwind that leaves the retry flag set; the bounded-retry
\* property (C29) must fail with it
UnwindFlagLeft(st) == [st EXCEPT !.fr.depth = 0]

\* leaving every nested _read_by_id: `finally: setattr(self, "_fc_retry_active", False)`
Unwind(st) ==
    IF st.fr.depth > 0
    THEN [st EXCEPT !.self.fc_retry_active = FALSE, !.fr.depth = 0]
    ELSE st

\* _read_by_id returns `bytes` (<<>> for None) to read_field, which goes on to
\* _tester_present
ReturnRbi(st, bytes) ==
    EnterTp([Unwind(st) EXCEPT
                !.fr.resp = bytes,
                !.obs.pay = [kind |-> IF bytes = <<>> THEN "none" ELSE "bytes",
                             bytes |-> bytes]])

\* an exception leaves _read_by_id and read_field
RaiseRbi(st) ==
    Done([Unwind(st) EXCEPT !.obs.pay = [kind |-> "raise", bytes |-> <<>>]],
         [kind |-> "raise", val |-> 0])

\* a positive response: last_status = None, the 0x21 cache is filled
Positive(st, out) ==
    LET cache == st.self.current_req_id # None /\ st.fr.service = \H21
    IN  ReturnRbi([st EXCEPT
                     !.self.last_status = "None",
                     !.self.last_tuple =
                         IF cache THEN <<st.self.current_req_id, st.fr.service, st.fr.ident>> ELSE @,
                     !.self.last_resp = IF cache THEN out ELSE @,
                     !.self.last_resp_ts = IF cache THEN Now ELSE @],
                  out)

\* A faulty variant of DelayDue that sleeps before requests of any service;
\* the one-shot delay property (C30) must fail with it
DelayDueAnyService(slf, service) ==
    slf.just_switched /\ slf.delay_before_21_ms > 0

\* if service == 0x21 and self._just_switched and self.delay_before_21_ms
\*    and self.delay_before_21_ms > 0
DelayDue(slf, service) ==
    service = \H21 /\ slf.just_switched /\ slf.delay_before_21_ms > 0

\* _read_by_id from its top to the send: the one-shot delay, the cache
EnterRbi(st) ==
    LET delay == DelayDue(st.self, st.fr.service)
        st1 == IF delay
               THEN [st EXCEPT !.self.just_switched = FALSE,
                               !.obs.slept = Append(@, st.self.delay_before_21_ms)]
               ELSE st
        st2 == IF st.fr.depth = 0
               THEN [st1 EXCEPT !.obs.chk = [done |-> TRUE,
                                            age |-> Now - st.self.last_resp_ts,
                                            cur |-> st.self.current_req_id]]
               ELSE st1
    IN  IF CacheHit(st2.self, Now, st2.fr.service, st2.fr.ident)
        THEN ReturnRbi(st2, st2.self.last_resp)
        ELSE IF ~st2.self.sock THEN RaiseRbi(st2)
        ELSE [st2 EXCEPT !.pc = "uds"]

\* the end of the First Frame branch (lines 419-452)
FinalizeFF(st) ==
    LET out == Truncated(st.fr.collected, st.fr.total_len)
    IN  IF Complete(out, st.fr.total_len, RespSid(st.fr.service))
        THEN Positive(st, out)
        ELSE IF /\ RetryWanted(st.fr.collected, st.fr.total_len,
                               st.self.fc_retry_enabled, st.self.fc_retry_active)
                /\ st.fr.depth < MaxDepth
             THEN [st EXCEPT !.self.fc_retry_active = TRUE, !.pc = "fc", !.fr.k = 1]
             ELSE ReturnRbi(st, <<>>)

\* the head of the collecting loop
CollectLoop(st) ==
    IF KeepCollecting(st.fr.collected, st.fr.total_len, Now, st.fr.deadline)
    THEN [st EXCEPT !.pc = "collect"]
    ELSE FinalizeFF(st)

\* _ensure_session returned (or swallowed an exception): read_field goes on to
\* _read_by_id, the public ensure_session returns
AfterSession(st) ==
    IF st.fr.op = "ensure_session" THEN Done(st, [kind |-> "none", val |-> 0])
    ELSE EnterRbi(st)

\* A faulty variant of SessionStarted that never finds the session started;
\* the session property (C13) must fail with it
SessionStartedNever(slf, req_id) == FALSE

\* if req_id in self._session_started
SessionStarted(slf, req_id) == req_id \in slf.session_started

\* _ensure_session, up to the first send
EnterSession(st) ==
    IF ~st.fr.force /\ ~SessionRequired(st.fr.req_id) THEN AfterSession(st)
    ELSE IF SessionStarted(st.self, st.fr.req_id) THEN AfterSession(st)
    ELSE IF ~st.self.sock THEN AfterSession(st)
    ELSE [st EXCEPT !.pc = "session", !.fr.k = 1]

\* an exception leaves _select_frame: read_field swallows it (`except
\* Exception: pass` around _select_frame and _ensure_session) and goes on to
\* _read_by_id; the other callers let it propagate
SelectRaised(st) ==
    IF st.fr.op = "read_field" THEN EnterRbi(st)
    ELSE Done(st, [kind |-> "raise", val |-> 0])

\* _select_frame returned: its direct caller gets None, the others go on to
\* _ensure_session
AfterSelect(st) ==
    IF st.fr.op = "select_frame" THEN Done(st, [kind |-> "none", val |-> 0])
    ELSE EnterSession(st)

\* A faulty variant of Selected that never finds the header selected; the
\* idempotence property (C12) must fail with it
SelectedNever(slf, req_id) == FALSE

\* if self._current_req_id == req_id
Selected(slf, req_id) == slf.current_req_id = req_id

\* _select_frame after the last command was answered (lines 523-539)
SelectDone(st) ==
    LET req == st.fr.req_id
    IN  [st EXCEPT
            !.self.current_req_id = req,
            !.self.just_switched = TRUE,
            !.self.delay_before_21_ms =
                IF req \in DOMAIN st.self.first_21_delay_by_req
                THEN st.self.first_21_delay_by_req[req] ELSE @]

\* _select_frame, up to the first send
EnterSelect(st) ==
    LET req == st.fr.req_id
    IN  IF req <= 0 \/ req > \H7FF THEN AfterSelect(st)
        ELSE IF ~st.self.sock THEN SelectRaised(st)
        ELSE IF Selected(st.self, req) THEN AfterSelect(st)
        ELSE [st EXCEPT !.pc = "select", !.fr.k = 1]

\* ---- the calls and their steps

\* the clients __init__ makes, delay_before_21_ms (in ms) set by the caller to
\* one of `delays`
Clients(delays) ==
    [sock : {FALSE}, current_req_id : {None}, session_started : {{}},
     last_tp : {-Horizon}, last_tuple : {<<>>}, last_resp : {<<>>},
     last_resp_ts : {-Horizon}, last_status : {"None"},
     just_switched : {FALSE}, delay_before_21_ms : delays,
     first_21_delay_by_req : {<<>>}, use_mask_filter : {FALSE},
     fc_retry_enabled : BOOLEAN, fc_retry_active : {FALSE}]

\* the client as __init__ leaves it; fc_retry_enabled is a tunable the caller
\* may have switched off
Constructed ==
    /\ self \in Clients({0})
    /\ pc = "idle"
    /\ fr = IdleFr
    /\ obs = BlankObs(NoPrev)
    /\ elm \in {ElmReset, ElmUnfollowed, ElmClocked, ElmWired, ElmHeard}

Init == Constructed /\ elm = ElmUnfollowed

\* connect()
Connect ==
    /\ pc = "idle"
    /\ ~self.sock
    /\ self' = [self EXCEPT !.sock = TRUE]
    /\ UNCHANGED <<pc, fr, obs, elm>>

\* close()
Close ==
    /\ pc = "idle"
    /\ self.sock
    /\ self' = [self EXCEPT !.sock = FALSE]
    /\ UNCHANGED <<pc, fr, obs, elm>>

\* time passes between two calls
Tick ==
    /\ pc = "idle"
    /\ Commit(Elapse(Bundle, 1))

\* the call has returned to its caller
Return ==
    /\ pc = "done"
    /\ pc' = "idle"
    /\ obs' = BlankObs([op |-> obs.op, sid |-> obs.sid, kind |-> obs.result.kind,
                        t |-> obs.t0, req |-> obs.req, force |-> obs.force])
    /\ UNCHANGED <<self, fr, elm>>

\* initialize(), up to the first send
InitializeCall ==
    /\ pc = "idle"
    /\ LET st == [Bundle EXCEPT !.obs = NewObs("initialize", "none", self, obs.prev),
                                !.fr.op = "initialize", !.fr.k = 1]
       IN  Commit(IF ~self.sock THEN Done(st, [kind |-> "raise", val |-> 0])
                  ELSE [st EXCEPT !.pc = "init"])

\* the adapter acknowledged the command: its reply holds the line OK
Acknowledged(r) == ~r.timeout /\ \E i \in 1..Len(r.lines) : r.lines[i] = <<"O","K">>

\* initialize(): one command of the sequence and its read
TxInit(inputs) ==
    /\ pc = "init"
    /\ \E r \in inputs : \E dt \in Durations(r, FALSE) :
        LET st0 == IF fr.k = InitStatusResetAt
                   THEN [Bundle EXCEPT !.self.last_status = "None"] ELSE Bundle
            st1 == [Read(Send(st0, InitCmds[fr.k], "init"), r, dt) EXCEPT
                      !.obs.unacked = @ \/ ~Acknowledged(r)]
        IN  Commit(IF r.timeout THEN Done(st1, [kind |-> "raise", val |-> 0])
                   ELSE IF fr.k < Len(InitCmds) THEN [st1 EXCEPT !.fr.k = @ + 1]
                   ELSE Done([st1 EXCEPT !.self.current_req_id = \H7E4,
                                         !.self.just_switched = FALSE],
                             [kind |-> "none", val |-> 0]))

\* read_field(sid) for a SID of `sids`, up to the first send
ReadFieldCall(sids) ==
    /\ pc = "idle"
    /\ \E sid \in sids :
        LET st0 == [Bundle EXCEPT !.obs = NewObs("read_field", sid, self, obs.prev)]
            f == Fields[sid]
            pair == pair_for_frame(f.frame_id % 2048)
            st == [st0 EXCEPT
                     !.obs.req = pair[1],
                     !.obs.frame = f.frame_id,
                     !.fr = [IdleFr EXCEPT
                               !.op = "read_field", !.sid = sid,
                               !.req_id = pair[1], !.resp_id = pair[2],
                               !.service = FieldService(f), !.ident = FieldIdent(f),
                               !.ident_len = FieldIdentLen(f)]]
        IN  Commit(IF ~FieldKnown(sid) THEN Done(st0, [kind |-> "KeyError", val |-> 0])
                   ELSE IF ~ServiceSupported(f.request_id)
                   THEN Done(st0, [kind |-> "ValueError", val |-> 0])
                   ELSE EnterSelect(st))

\* _select_frame(req_id) called directly, up to the first send:
\* rpid = (resp_id if resp_id is not None else (req_id + 0x8)) & 0x7FF
SelectFrameCall(reqs) ==
    /\ pc = "idle"
    /\ \E r \in reqs :
        LET st == [Bundle EXCEPT
                     !.obs = [NewObs("select_frame", "none", self, obs.prev) EXCEPT
                                !.req = r],
                     !.fr = [IdleFr EXCEPT
                               !.op = "select_frame",
                               !.req_id = r, !.resp_id = (r + 8) % 2048]]
        IN  Commit(EnterSelect(st))

\* ensure_session(frame_id, force), up to the first send
EnsureSessionCall(frame_ids) ==
    /\ pc = "idle"
    /\ \E frame_id \in frame_ids, force \in BOOLEAN :
        LET pair == pair_for_frame(frame_id % 2048)
            st == [Bundle EXCEPT
                     !.obs = [NewObs("ensure_session", "none", self, obs.prev) EXCEPT
                                !.req = pair[1], !.force = force,
                                !.frame = frame_id],
                     !.fr = [IdleFr EXCEPT
                               !.op = "ensure_session",
                               !.req_id = pair[1], !.resp_id = pair[2],
                               !.force = force]]
        IN  Commit(EnterSelect(st))

\* _select_frame: one command and its read
TxSelect ==
    /\ pc = "select"
    /\ \E r \in AtInputs : \E dt \in Durations(r, FALSE) :
        LET cmds == SelectCmds(fr.req_id, fr.resp_id % 2048, self.use_mask_filter)
            st1 == Read(Send(Bundle, cmds[fr.k], "select"), r, dt)
        IN  Commit(IF r.timeout THEN SelectRaised(Failed(st1, "select"))
                   ELSE IF fr.k < Len(cmds) THEN [st1 EXCEPT !.fr.k = @ + 1]
                   ELSE AfterSelect(SelectDone(st1)))

\* ln.upper().replace(" ", "")
RemoveSpaces(s) == SelectSeq(s, LAMBDA ch : ch # " ")

\* any(expect in ln for ln in up)
SessionAccepted(lines, expect) ==
    \E i \in 1..Len(lines) : Contains(RemoveSpaces(Upper(lines[i])), expect)

\* A faulty variant of SessionAdd that forgets the sessions started before;
\* the persistence property (C15) must fail with it
SessionOnly(started, req_id) == {req_id}

\* self._session_started.add(req_id)
SessionAdd(started, req_id) == started \cup {req_id}

\* _ensure_session: one mode and its read
TxSession ==
    /\ pc = "session"
    /\ \E r \in SessionInputs : \E dt \in Durations(r, FALSE) :
        LET m == SessionModes[fr.k]
            st1 == Read(Send(Bundle, m.cmd, "session"), r, dt)
        IN  Commit(IF r.timeout THEN AfterSession(st1)
                   ELSE IF SessionAccepted(r.lines, m.expect)
                   THEN AfterSession([st1 EXCEPT
                                        !.self.session_started = SessionAdd(@, fr.req_id)])
                   ELSE IF fr.k < Len(SessionModes) THEN [st1 EXCEPT !.fr.k = @ + 1]
                   ELSE AfterSession(st1))

\* _read_by_id: the request, its read, and what follows up to the next read
TxUds(inputs) ==
    /\ pc = "uds"
    /\ \E r \in inputs : \E dt \in Durations(r, FALSE) :
        LET cmd == RequestCmd(fr.service, fr.ident, fr.ident_len)
            st1 == Read(Send(Bundle, cmd, "uds"), r, dt)
            st2 == [st1 EXCEPT
                      !.self.last_status = IF r.status = "keep" THEN @ ELSE r.status,
                      !.obs.att = Append(@, [status |-> r.status,
                                             statusAt |-> self.last_status,
                                             b |-> r.b, readOn |-> FALSE,
                                             own |-> elm.pending = <<>>,
                                             frames |-> Tagged(r.frames, FALSE)])]
            sg == Segments(r.b, RespSid(fr.service), fr.ident, fr.ident_len)
        IN  Commit(IF r.timeout THEN RaiseRbi(Failed(st1, "uds"))
                   ELSE IF IsFirstFrame(r.b)
                   THEN CollectLoop([st2 EXCEPT
                                       !.fr.total_len = TotalLen(r.b),
                                       !.fr.collected = FirstCollected(r.b),
                                       !.fr.deadline = Now + ISOTP_COLLECT,
                                       !.fr.expected_sn = 1])
                   ELSE IF sg.k = "raise" THEN RaiseRbi(st2)
                   ELSE IF sg.k = "none" THEN ReturnRbi(st2, <<>>)
                   ELSE Positive(st2, sg.out))

\* _read_by_id: one more read while collecting Consecutive Frames
RxCollect(inputs) ==
    /\ pc = "collect"
    /\ \E r \in inputs : \E dt \in Durations(r, TRUE) :
        LET st1 == Read(Bundle, r, dt)
            n == Len(obs.att)
            st2 == [st1 EXCEPT
                      !.obs.att[n].frames = @ \o Tagged(r.frames, TRUE),
                      !.obs.att[n].readOn = @ \/ HasWrongSn(obs.att[n].frames)]
            c == CfScan(r.b, 0, fr.collected, fr.expected_sn, fr.total_len)
        IN  Commit(IF r.timeout THEN FinalizeFF(Failed(st2, "collect"))
                   ELSE IF r.b = <<>> THEN CollectLoop(st2)
                   ELSE IF c.err THEN ReturnRbi(st2, <<>>)
                   ELSE CollectLoop([st2 EXCEPT !.fr.collected = c.collected,
                                                !.fr.expected_sn = c.expected_sn]))

\* _read_by_id: one command of the flow-control reassert and its read; after
\* the last one the same request is read again (the nested _read_by_id)
TxFc ==
    /\ pc = "fc"
    /\ \E r \in AtInputs : \E dt \in Durations(r, FALSE) :
        LET st1 == Read(Send(Bundle, FcReassertCmds[fr.k], "fc"), r, dt)
        IN  Commit(IF fr.k < Len(FcReassertCmds) THEN [st1 EXCEPT !.fr.k = @ + 1]
                   ELSE EnterRbi([st1 EXCEPT !.fr.depth = @ + 1]))

\* _tester_present: the keep-alive and its read
TxTp ==
    /\ pc = "tp"
    /\ \E r \in TpInputs : \E dt \in Durations(r, FALSE) :
        LET st1 == Read(Send(Bundle, TesterPresentCmd, "tp"), r, dt)
            st2 == IF r.timeout THEN st1 ELSE [st1 EXCEPT !.self.last_tp = st1.fr.tp_now]
        IN  Commit(Done(st2, FieldResult(st2)))

\* The client initialised and reading a 0x22 field of the EVC
Next ==
    \/ Connect
    \/ Tick
    \/ Return
    \/ InitializeCall
    \/ TxInit(AtInputs)
    \/ ReadFieldCall({"soc"})
    \/ TxSelect
    \/ TxUds(UdsInputs)
    \/ RxCollect(CfInputs)
    \/ TxFc
    \/ TxTp

Spec == Init /\ [][Next]_vars

\* The client reading a 0x21 field of the LBC, which requires a session
NextLbc ==
    \/ Connect
    \/ Close
    \/ Tick
    \/ Return
    \/ ReadFieldCall({"lbc"})
    \/ TxSelect
    \/ TxSession
    \/ TxUds(UdsInputsLbc)
    \/ RxCollect(CfInputsLbc)
    \/ TxFc
    \/ TxTp

SpecLbc == Init /\ [][NextLbc]_vars

\* what the read after a UDS request of the field being read may receive
UdsInputsBoth == IF fr.service = \H22 THEN UdsInputsSoc ELSE UdsInputsLbcShort

\* The client reading a 0x22 field of the EVC and a 0x21 field of the LBC in
\* any order
NextBoth ==
    \/ Connect
    \/ Tick
    \/ Return
    \/ ReadFieldCall({"soc", "lbc"})
    \/ TxSelect
    \/ TxSession
    \/ TxUds(UdsInputsBoth)
    \/ RxCollect(CfInputsLbc)
    \/ TxFc
    \/ TxTp

SpecBoth == Init /\ [][NextBoth]_vars

\* the request ids and frame ids the callers of _select_frame and
\* ensure_session pass
ApiReqIds == { \H7E4, \H79B }
ApiFrameIds == { \H7EC, \H7BB }

\* what the read after a UDS request may receive, for a client driven through
\* all its calls
UdsInputsLbcApi == { Received(r) : r \in UdsRepliesLbcApi }
UdsInputsApi == IF fr.service = \H22 THEN UdsInputsSoc ELSE UdsInputsLbcApi

\* The client driven through all its calls in any order
NextApi ==
    \/ Connect
    \/ Close
    \/ Return
    \/ InitializeCall
    \/ TxInit(AtInputs)
    \/ SelectFrameCall(ApiReqIds)
    \/ EnsureSessionCall(ApiFrameIds)
    \/ ReadFieldCall({"soc", "lbc"})
    \/ TxSelect
    \/ TxSession
    \/ TxUds(UdsInputsApi)
    \/ TxTp

\* the client as __init__ leaves it, no tunable changed
InitApi == Init /\ self.fc_retry_enabled

SpecApi == InitApi /\ [][NextApi]_vars

\* The client reading any field a caller may name
NextFields ==
    \/ Connect
    \/ Close
    \/ Return
    \/ ReadFieldCall(AnySids)
    \/ TxSelect
    \/ TxSession
    \/ TxUds(UdsInputsApi)
    \/ TxTp

SpecFields == InitApi /\ [][NextFields]_vars

\* The client initialised, and the header of the LBC selected, on an adapter
\* that may reject a command of initialize
NextInit ==
    \/ Connect
    \/ Close
    \/ Return
    \/ InitializeCall
    \/ TxInit(AtInputsNak)
    \/ SelectFrameCall({\H79B})
    \/ TxSelect

SpecInit == InitApi /\ [][NextInit]_vars

\* responses handed to the parser: glued and spaced hex, a line with a half
\* byte, a status line, an acknowledgement
ParseTexts ==
    { <<"0","6","6","2","\r",">">>,
      <<"0","6"," ","6","2","\r","\r",">">>,
      <<"0","6","a","\r",">">>,
      <<"N","O"," ","D","A","T","A","\r",">">>,
      <<"O","K","\r",">">> }

\* the characters a whitespace-only transformation inserts
Whitespace == { " ", "\t", "\r", "\n" }

\* text with ch inserted after its first i characters
InsertAt(text, i, ch) == SubSeq(text, 1, i) \o <<ch>> \o SubSeq(text, i + 1, Len(text))

\* the adapter's response R arrives
Receive(texts) ==
    /\ pc = "idle"
    /\ \E text \in texts :
         /\ pc' = "recv"
         /\ fr' = [op |-> "parse", text |-> text, spaced |-> text, inserted |-> 0]
    /\ UNCHANGED <<self, obs, elm>>

\* one more whitespace character is inserted somewhere into W(R)
InsertWhitespace ==
    /\ pc = "recv"
    /\ fr.inserted < MaxInsert
    /\ \E i \in 0..Len(fr.spaced), ch \in Whitespace :
         fr' = [fr EXCEPT !.spaced = InsertAt(@, i, ch), !.inserted = @ + 1]
    /\ UNCHANGED <<self, pc, obs, elm>>

\* _only_hex_bytes(_read_lines()) for R and for W(R)
ParseBoth ==
    /\ pc = "recv"
    /\ pc' = "parsed"
    /\ obs' = [op |-> "parse",
               b |-> only_hex_bytes(LinesOf(fr.text)),
               bw |-> only_hex_bytes(LinesOf(fr.spaced))]
    /\ UNCHANGED <<self, fr, elm>>

\* The parser applied to a response and to the response with whitespace inserted
NextParse ==
    \/ Receive(ParseTexts)
    \/ InsertWhitespace
    \/ ParseBoth

SpecParse == InitApi /\ [][NextParse]_vars

\* the call has returned to its caller; what it was is not kept
ReturnPlain ==
    /\ pc = "done"
    /\ pc' = "idle"
    /\ obs' = BlankObs(NoPrev)
    /\ UNCHANGED <<self, fr, elm>>

\* the request id passed to _select_frame without a response id for which the
\* default response id, req_id + 8, is the paired one
ElmReqIds == { \H7E4 }

\* The client driven through its calls on one connection, the adapter's
\* registers followed
NextElm ==
    \/ Connect
    \/ ReturnPlain
    \/ InitializeCall
    \/ TxInit(AtInputs)
    \/ SelectFrameCall(ElmReqIds)
    \/ EnsureSessionCall(ApiFrameIds)
    \/ ReadFieldCall({"soc", "lbc"})
    \/ TxSelect
    \/ TxSession
    \/ TxUds(UdsInputsApi)
    \/ TxTp

InitElm == Constructed /\ self.fc_retry_enabled /\ elm = ElmReset

SpecElm == InitElm /\ [][NextElm]_vars

\* the first read after a 0x22 request, for an adapter that prefixes each frame
\* with the 3-digit CAN id of the response (spaced, and glued)
HeadedSpaced ==
    TextReply(<<"7","E","8"," ","0","6"," ","6","2"," ","2","0"," ","0","2"," ",
                "0","F"," ","A","0"," ","0","0"," ","0","0","\r","\r",">">>)

HeadedGlued ==
    TextReply(<<"7","E","8","0","6","6","2","2","0","0","2",
                "0","F","A","0","0","0","0","0","\r","\r",">">>)

UdsRepliesHeaded == { HeadedSpaced, HeadedGlued, Reply(<<SfSoc>>), Timeout }

UdsInputsHeaded == { Received(r) : r \in UdsRepliesHeaded }

\* The client reading a 0x22 field through an adapter that may prefix the CAN id
NextHeaded ==
    \/ Connect
    \/ Tick
    \/ Return
    \/ ReadFieldCall({"soc"})
    \/ TxSelect
    \/ TxUds(UdsInputsHeaded)
    \/ TxTp

SpecHeaded == InitApi /\ [][NextHeaded]_vars

\* the byte strings handed to the bit extractor: up to MaxBytes bytes, each
\* one of a few bit patterns
ByteValues == { \H00, \HFF, \HA5, \H3C, \H80, \H01 }

BitsData == UNION { [1..n -> ByteValues] : n \in 1..MaxBytes }

\* int.from_bytes(data, "big")
RECURSIVE FromBytes(_)
FromBytes(data) ==
    IF data = <<>> THEN 0
    ELSE 256 * FromBytes(SubSeq(data, 1, Len(data) - 1)) + data[Len(data)]

\* A faulty variant of ShiftMask that masks the value without shifting it; the
\* reconstruction property (C23) must fail with it
ShiftMaskUnshifted(data, start_bit, end_bit) ==
    FromBytes(data) % (2 ^ (end_bit - start_bit + 1))

\* _extract_bits as the code computes it, for data short enough that the
\* integer fits: value >>= total_bits - end_bit - 1; value & mask
ShiftMask(data, start_bit, end_bit) ==
    (FromBytes(data) \div (2 ^ (Len(data) * 8 - end_bit - 1)))
        % (2 ^ (end_bit - start_bit + 1))

\* a value as a string of `width` bits, most significant first
ToBits(v, width) == [i \in 1..width |-> (v \div (2 ^ (width - i))) % 2]

\* a caller takes a byte string to cut into bit fields
TakeData ==
    /\ pc = "idle"
    /\ \E data \in BitsData :
         /\ pc' = "bits"
         /\ fr' = [op |-> "bits", data |-> data, next |-> 0]
         /\ obs' = [op |-> "bits", bits |-> <<>>, parts |-> 0,
                    last |-> [s |-> 0, e |-> 0, v |-> 0]]
    /\ UNCHANGED <<self, elm>>

\* _extract_bits(data, s, e) for the next range of a partition of the bits of
\* data: s is the first bit not yet extracted, e any bit from s on
ExtractNext ==
    /\ pc = "bits"
    /\ fr.next < 8 * Len(fr.data)
    /\ \E e \in fr.next..(8 * Len(fr.data) - 1) :
         LET v == ShiftMask(fr.data, fr.next, e)
         IN  /\ fr' = [fr EXCEPT !.next = e + 1]
             /\ obs' = [obs EXCEPT !.bits = @ \o ToBits(v, e - fr.next + 1),
                                   !.parts = @ + 1,
                                   !.last = [s |-> fr.next, e |-> e, v |-> v]]
    /\ UNCHANGED <<self, pc, elm>>

\* the caller is done with the byte string
DropData ==
    /\ pc = "bits"
    /\ fr.next = 8 * Len(fr.data)
    /\ pc' = "idle"
    /\ fr' = IdleFr
    /\ obs' = BlankObs(NoPrev)
    /\ UNCHANGED <<self, elm>>

\* The bit extractor applied to every range of every partition of a byte string
NextBits ==
    \/ TakeData
    \/ ExtractNext
    \/ DropData

SpecBits == InitApi /\ [][NextBits]_vars

\* the first read after a UDS request, one reply for each outcome of the read:
\* a value, a negative response, no data, a status hint, no answer
UdsRepliesOutcomes ==
    { Reply(<<SfSoc>>), Reply(<<Neg22>>),
      TextReply(<<"N","O"," ","D","A","T","A","\r","\r",">">>),
      TextReply(<<"C","A","N"," ","E","R","R","O","R",">">>),
      Timeout }

UdsInputsOutcomes == { Received(r) : r \in UdsRepliesOutcomes }

UdsInputsTp == IF fr.service = \H22 THEN UdsInputsOutcomes ELSE UdsInputsLbcApi

\* The client reading fields while time passes, the adapter noting when it
\* receives TesterPresent
NextTp ==
    \/ Connect
    \/ Tick
    \/ Return
    \/ ReadFieldCall({"soc", "lbc"})
    \/ TxSelect
    \/ TxSession
    \/ TxUds(UdsInputsTp)
    \/ TxTp

InitTp == Constructed /\ self.fc_retry_enabled /\ elm = ElmClocked

SpecTp == InitTp /\ [][NextTp]_vars

\* what the read after a UDS request receives when the replies on their way are
\* followed: the reply to the oldest command not answered yet, or nothing
UdsInputsWire ==
    IF elm.pending = <<>> \/ elm.pending[1] = "uds" THEN UdsInputsSoc
    ELSE IF elm.pending[1] = "tp" THEN TpInputs
    ELSE AtInputs

\* The client reading a 0x22 field on one connection, the replies on their way
\* followed
NextWire ==
    \/ Connect
    \/ ReturnPlain
    \/ ReadFieldCall({"soc"})
    \/ TxSelect
    \/ TxUds(UdsInputsWire)
    \/ TxTp

InitWire == Constructed /\ self.fc_retry_enabled /\ elm = ElmWired

SpecWire == InitWire /\ [][NextWire]_vars

\* The client starting sessions on one connection, the adapter's replies
\* followed
NextSession ==
    \/ Connect
    \/ ReturnPlain
    \/ EnsureSessionCall(ApiFrameIds)
    \/ TxSelect
    \/ TxSession

InitSession == Constructed /\ self.fc_retry_enabled /\ elm = ElmHeard

SpecSession == InitSession /\ [][NextSession]_vars

\* the frame ids callers resolve: the ids of the ECU map in both directions, an
\* id of no ECU, one whose heuristic request id wraps around, one wider than
\* 11 bits
PairFrameIds == { \H7EC, \H7E4, \H7BB, \H79B, \H763, \H005, \HFBB }

\* The client selecting the ECU of any frame id, the adapter's registers
\* followed
NextPair ==
    \/ Connect
    \/ ReturnPlain
    \/ EnsureSessionCall(PairFrameIds)
    \/ TxSelect
    \/ TxSession

SpecPair == InitElm /\ [][NextPair]_vars

\* the values of delay_before_21_ms a caller sets (ms)
Delays == { 0, 50 }

\* The client reading a 0x22 field of the EVC and a 0x21 field of the LBC on
\* one connection, delay_before_21_ms set or not
NextDelay ==
    \/ Connect
    \/ ReturnPlain
    \/ ReadFieldCall({"soc", "lbc"})
    \/ TxSelect
    \/ TxSession
    \/ TxUds(UdsInputsBoth)
    \/ RxCollect(CfInputsLbc)
    \/ TxFc
    \/ TxTp

InitDelay ==
    /\ self \in Clients(Delays)
    /\ self.fc_retry_enabled
    /\ pc = "idle"
    /\ fr = IdleFr
    /\ obs = BlankObs(NoPrev)
    /\ elm = ElmUnfollowed

SpecDelay == InitDelay /\ [][NextDelay]_vars

\* the per-ECU delay (ms) a configuration gives for the battery controller
LbcDelay == 100

\* initialize with PYCANZE_FIRST_21_DELAY_LBC_MS set:
\* self.first_21_delay_by_req[0x7BB] = float(v)
OverrideEnv == (\H7BB :> LbcDelay)

\* a caller that sets the tunable under the request id the database gives the
\* battery controller
OverrideReq == (\H79B :> LbcDelay)

Overrides == { OverrideEnv, OverrideReq }

\* a frame id the database does not hold, resolved by the +8 fallback of
\* _pair_for_frame to the request id 0x7BB
FrameIdsFallback == { \H7C3 }

\* The client with a per-ECU first-0x21 delay configured, reading a 0x22 field
\* of the EVC and a 0x21 field of the LBC, and selecting the ECU of a frame id
\* by ensure_session
NextOverride ==
    \/ Connect
    \/ ReturnPlain
    \/ ReadFieldCall({"soc", "lbc"})
    \/ EnsureSessionCall(FrameIdsFallback)
    \/ TxSelect
    \/ TxSession
    \/ TxUds(UdsInputsBoth)
    \/ RxCollect(CfInputsLbc)
    \/ TxFc
    \/ TxTp

InitOverride ==
    /\ self \in { [c EXCEPT !.first_21_delay_by_req = o] :
                    c \in Clients(Delays), o \in Overrides }
    /\ self.fc_retry_enabled
    /\ pc = "idle"
    /\ fr = IdleFr
    /\ obs = BlankObs(NoPrev)
    /\ elm = ElmUnfollowed

SpecOverride == InitOverride /\ [][NextOverride]_vars

\* the values of the bytes an ECU fills a Consecutive Frame up with
PadBytes == { \H00, \HAA, \H20 }

\* the Consecutive Frame numbered 1 that carries the four bytes FfSoc leaves
\* missing, filled up to eight bytes with p
CfPadded(p) == <<\H21, \H04, \H05, \H06, \H07, p, p, p>>

\* the first read after a 0x22 request answered by a multi-frame response, and
\* the later reads
UdsInputsPad == { Received(r) : r \in { Reply(<<FfSoc>>), Timeout } }
CfInputsPad == { Received(r) : r \in { Reply(<<CfPadded(p)>>) : p \in PadBytes }
                                      \cup { Timeout } }

\* The client reading a 0x22 field whose response comes as a First Frame and a
\* padded Consecutive Frame in a later read
NextPad ==
    \/ Connect
    \/ Tick
    \/ Return
    \/ ReadFieldCall({"soc"})
    \/ TxSelect
    \/ TxUds(UdsInputsPad)
    \/ RxCollect(CfInputsPad)
    \/ TxFc
    \/ TxTp

SpecPad == Init /\ [][NextPad]_vars

(***************************************************************************)
(* The arrival poller (Testing/zoe_arrival_poller.py), a script of its own:*)
(* fr holds the local variables of main(), obs what the last pass of its   *)
(* loop did, pc whether the loop runs.  Planning and the Shelly switch     *)
(* touch neither the loop's state nor the dongle and are left out.  Time   *)
(* is in seconds; fast_age is time.time() - t_fast_start, kept up to       *)
(* FAST_POLL_MAX_WINDOW, from where on its value makes no difference.      *)
(***************************************************************************)
STATE_WAIT_DONGLE == "WAIT_DONGLE"
STATE_FAST_CAPTURE == "FAST_CAPTURE"
STATE_SLOW_MONITOR == "SLOW_MONITOR"

FAST_POLL_INTERVAL == 3
FAST_POLL_MAX_WINDOW == 180

\* what uds_rdbi returns: None, or the bytes after 62 <did_hi> <did_lo>
NoPayload == [some |-> FALSE, bytes |-> <<>>]
Payload(bytes) == [some |-> TRUE, bytes |-> bytes]

\* what one connection of try_poll_once ends with: an exception of
\* socket.create_connection, elm_init or uds_rdbi, or the result of uds_rdbi
Raises == [raises |-> TRUE, payload |-> NoPayload]
Returns(p) == [raises |-> FALSE, payload |-> p]

SocOutcomes ==
    { Raises, Returns(NoPayload), Returns(Payload(<<>>)),
      Returns(Payload(<<\H00, \H00>>)), Returns(Payload(<<\H0F, \HA0, \H00, \H00>>)) }

OdoOutcomes ==
    { Raises, Returns(NoPayload), Returns(Payload(<<\H00, \HB5>>)),
      Returns(Payload(<<\H00, \HB5, \HFB, \HAA>>)) }

\* the seconds one try_poll_once takes
PollTimes == { 1, 10 }

\* decode_soc, in units of 0.01 %
decode_soc(p) ==
    IF p.some /\ Len(p.bytes) >= 2
    THEN LET raw == p.bytes[1] * 256 + p.bytes[2]
         IN  IF raw = 0 THEN None ELSE raw * 2
    ELSE None

\* decode_odo, in km
decode_odo(p) ==
    IF p.some /\ Len(p.bytes) >= 3
    THEN p.bytes[1] * 65536 + p.bytes[2] * 256 + p.bytes[3]
    ELSE None

\* A faulty variant of WindowElapsed that takes the window for elapsed at
\* once; the transition property (C37) must fail with it
WindowElapsedAtOnce(age) == TRUE

\* time.time() - t_fast_start >= FAST_POLL_MAX_WINDOW
WindowElapsed(age) == age >= FAST_POLL_MAX_WINDOW

\* what a pass of the loop did: the ping it made, whether it called
\* try_poll_once and with which results, the age of the fast window it
\* tested, and (ever_soc, ever_km) whether each value has been captured since
\* the loop last entered FAST_CAPTURE
PassObs(ping, polled, soc, km, age, raised) ==
    [op |-> "poller", ping |-> ping, polled |-> polled, soc |-> soc, km |-> km,
     age |-> age, raised |-> raised,
     ever_soc |-> IF ping = "ok" /\ ~polled THEN FALSE
                  ELSE obs.ever_soc \/ soc # None,
     ever_km |-> IF ping = "ok" /\ ~polled THEN FALSE
                 ELSE obs.ever_km \/ km # None]

\* try_poll_once: the SoC connection, then the odometer connection; an
\* exception of the first leaves the second unmade
PollRounds ==
    { [raised |-> s.raises \/ o.raises,
       soc |-> decode_soc(s.payload), km |-> decode_odo(o.payload), dt |-> dt] :
      s \in SocOutcomes, o \in OdoOutcomes, dt \in PollTimes }

\* main: a pass of the loop in WAIT_DONGLE
WaitDongle ==
    /\ pc = "main"
    /\ fr.state = STATE_WAIT_DONGLE
    /\ \E ok \in BOOLEAN :
         IF ok
         THEN /\ fr' = [fr EXCEPT !.state = STATE_FAST_CAPTURE, !.fast_age = 0]
              /\ obs' = PassObs("ok", FALSE, None, None, 0, FALSE)
         ELSE /\ fr' = fr
              /\ obs' = PassObs("fail", FALSE, None, None, 0, FALSE)
    /\ UNCHANGED <<self, pc, elm>>

\* main: a pass of the loop in FAST_CAPTURE; an exception of try_poll_once
\* leaves main, which catches KeyboardInterrupt only
FastCapture ==
    /\ pc = "main"
    /\ fr.state = STATE_FAST_CAPTURE
    /\ \E p \in PollRounds :
         LET age == Min(fr.fast_age + p.dt, FAST_POLL_MAX_WINDOW)
         IN  IF p.raised
             THEN /\ pc' = "exited"
                  /\ fr' = fr
                  /\ obs' = PassObs("none", TRUE, None, None, fr.fast_age, TRUE)
             ELSE /\ pc' = pc
                  /\ obs' = PassObs("none", TRUE, p.soc, p.km, age, FALSE)
                  /\ fr' = [fr EXCEPT
                       !.last_soc = IF p.soc # None THEN p.soc ELSE @,
                       !.last_km = IF p.km # None THEN p.km ELSE @,
                       !.state = IF (p.soc # None /\ p.km # None) \/ WindowElapsed(age)
                                 THEN STATE_SLOW_MONITOR ELSE @,
                       !.fast_age = IF (p.soc # None /\ p.km # None) \/ WindowElapsed(age)
                                    THEN FAST_POLL_MAX_WINDOW
                                    ELSE Min(age + FAST_POLL_INTERVAL, FAST_POLL_MAX_WINDOW)]
    /\ UNCHANGED <<self, elm>>

\* main: a pass of the loop in SLOW_MONITOR
SlowMonitor ==
    /\ pc = "main"
    /\ fr.state = STATE_SLOW_MONITOR
    /\ \/ /\ pc' = pc
          /\ fr' = [fr EXCEPT !.state = STATE_WAIT_DONGLE]
          /\ obs' = PassObs("fail", FALSE, None, None, fr.fast_age, FALSE)
       \/ \E p \in PollRounds :
            IF p.raised
            THEN /\ pc' = "exited"
                 /\ fr' = fr
                 /\ obs' = PassObs("ok", TRUE, None, None, fr.fast_age, TRUE)
            ELSE /\ pc' = pc
                 /\ obs' = PassObs("ok", TRUE, p.soc, p.km, fr.fast_age, FALSE)
                 /\ fr' = [fr EXCEPT
                      !.last_soc = IF p.soc # None THEN p.soc ELSE @,
                      !.last_km = IF p.km # None THEN p.km ELSE @]
    /\ UNCHANGED <<self, elm>>

\* Ctrl+C: main logs and returns
Interrupt ==
    /\ pc = "main"
    /\ pc' = "interrupted"
    /\ UNCHANGED <<self, fr, obs, elm>>

NextPoller ==
    \/ WaitDongle
    \/ FastCapture
    \/ SlowMonitor
    \/ Interrupt

\* main before its loop, no state file found
InitPoller ==
    /\ self \in Clients({0})
    /\ self.fc_retry_enabled
    /\ elm = ElmUnfollowed
    /\ pc = "main"
    /\ fr = [state |-> STATE_WAIT_DONGLE, fast_age |-> 0,
             last_soc |-> None, last_km |-> None]
    /\ obs = [op |-> "poller", ping |-> "none", polled |-> FALSE, soc |-> None,
              km |-> None, age |-> 0, raised |-> FALSE,
              ever_soc |-> FALSE, ever_km |-> FALSE]

SpecPoller == InitPoller /\ [][NextPoller]_vars

(***************************************************************************)
(* What the properties speak of: a read_field call that has just returned. *)
(***************************************************************************)
ReadFieldDone == pc = "done" /\ obs.op = "read_field"

ObsField == Fields[obs.sid]
ObsService == FieldService(ObsField)
ObsIdent == FieldIdent(ObsField)
ObsRespSid == RespSid(ObsService)

\* the commands the call transmitted, by the part of the code that sent them
SentBy(parts) == SelectSeq(obs.sent, LAMBDA e : e.by \in parts)
CmdsOf(log) == [i \in 1..Len(log) |-> log[i].cmd]

\* the answer to the last UDS request transmitted
LastAtt == obs.att[Len(obs.att)]
Answered == obs.att # <<>> /\ Len(SentBy({"uds"})) = Len(obs.att)

NoneResult == [kind |-> "none", val |-> 0]

\* a frame that is an ISO-TP Single Frame with a positive response to the
\* request of field f, long enough to hold the field
IsSfPositive(frame, f) ==
    /\ Len(frame) >= 2
    /\ frame[1] \in 1..7
    /\ Len(frame) >= 1 + frame[1]
    /\ frame[2] = RespSid(FieldService(f))
    /\ IF FieldIdentLen(f) = 2
       THEN /\ frame[1] >= 3
            /\ frame[3] = (FieldIdent(f) \div 256) % 256
            /\ frame[4] = FieldIdent(f) % 256
       ELSE /\ frame[1] >= 2
            /\ frame[3] = FieldIdent(f) % 256
    /\ frame[1] * 8 > f.end_bit

\* the bytes stream holds 0x7F followed by at least two more bytes
Has7F(b) == \E i \in 1..(Len(b) - 2) : b[i] = \H7F

\* C1: for a single-frame positive response, whatever its data bytes,
\* read_field returns offset + resolution * raw, raw being the bit field
\* [start_bit, end_bit] counted from the positive-response service byte.
C1_SingleFrameDecodes ==
    (/\ ReadFieldDone
     /\ Len(obs.att) = 1
     /\ obs.att[1].status = "keep"
     /\ Len(obs.att[1].frames) = 1
     /\ IsSfPositive(obs.att[1].frames[1].bytes, ObsField))
    => LET frame == obs.att[1].frames[1].bytes
           raw == extract_bits(SubSeq(frame, 2, Len(frame)),
                               ObsField.start_bit, ObsField.end_bit)
       IN  obs.result = [kind |-> "value",
                         val |-> ObsField.offset + ObsField.resolution * raw]

\* C2: when the reply to a UDS read is only a status line (CAN ERROR, NO DATA
\* or ERROR) without hex data, read_field returns None, it does not raise, and
\* last_status is the status of that line.
C2_StatusOnlyReturnsNone ==
    (/\ ReadFieldDone
     /\ Answered
     /\ LastAtt.status # "keep"
     /\ LastAtt.b = <<>>)
    => /\ obs.result = NoneResult
       /\ self.last_status = LastAtt.status

\* C3, as stated: when the parsed stream of a UDS read contains 0x7F <service>
\* <code>, read_field returns None, last_status is what it was before the
\* call, and the request is transmitted once only.
C3_NegativeAsStated ==
    (/\ ReadFieldDone
     /\ \E n \in 1..Len(obs.att) : Has7F(obs.att[n].b))
    => /\ obs.result = NoneResult
       /\ self.last_status = obs.status0
       /\ Len(SentBy({"uds"})) = 1

\* C3, amended: when the stream of a reply that does not begin with a First
\* Frame contains 0x7F followed by two bytes, _read_by_id and read_field return
\* None and the request is not transmitted again after that reply; last_status
\* is what it was before the call unless a reply of the call carried a status
\* line.
C3_NegativeReturnsNone ==
    ReadFieldDone =>
        \A n \in 1..Len(obs.att) :
            (~IsFirstFrame(obs.att[n].b) /\ Has7F(obs.att[n].b))
            => /\ n = Len(obs.att)
               /\ Len(SentBy({"uds"})) = n
               /\ obs.pay.kind = "none"
               /\ obs.result = NoneResult
               /\ (\A m \in 1..n : obs.att[m].status = "keep")
                    => self.last_status = obs.status0

\* a negative response after a NO DATA status left by an earlier call: None is
\* returned and the status is still NO_DATA
C3_Witness ==
    /\ ReadFieldDone
    /\ Len(obs.att) = 1
    /\ obs.att[1].b = Neg22
    /\ obs.result = NoneResult
    /\ obs.status0 = "NO_DATA"
    /\ self.last_status = "NO_DATA"
    /\ Len(SentBy({"uds"})) = 1

\* C4: whenever _read_by_id returns a payload p, p[0] is service + 0x40 and,
\* for service 0x22, p[1] and p[2] are the requested DID.
C4_PayloadMatchesRequest ==
    (ReadFieldDone /\ obs.pay.kind = "bytes")
    => LET p == obs.pay.bytes
       IN  /\ p[1] = ObsRespSid
           /\ ObsService = \H22 =>
                /\ Len(p) >= 3
                /\ p[2] = (ObsIdent \div 256) % 256
                /\ p[3] = ObsIdent % 256

\* C5: the payload reassembled from a First Frame and Consecutive Frames in
\* sequence order is the First Frame's payload followed by the data bytes of
\* each Consecutive Frame, PCI bytes removed, truncated to the declared total
\* length, whether the Consecutive Frames come in the read of the First Frame
\* or in later reads.
C5_ReassemblyStripsPci ==
    (/\ ReadFieldDone
     /\ Answered
     /\ StartsWithFF(LastAtt.frames)
     /\ InOrder(LastAtt.frames)
     /\ obs.pay.kind = "bytes")
    => obs.pay.bytes = Reassembled(LastAtt.frames)

\* the Consecutive Frames carry exactly the bytes the First Frame leaves missing
ExactFill(F) ==
    /\ StartsWithFF(F)
    /\ Len(F) >= 2
    /\ InOrder(F)
    /\ Len(CfData(F, 2)) = TotalLen(F[1].bytes) - Len(FirstCollected(F[1].bytes))

\* C6: a First Frame declaring N bytes followed by Consecutive Frames numbered
\* 1, 2, ... that carry exactly the missing bytes gives a payload of N bytes.
C6_CompleteGivesTotalLen ==
    (/\ ReadFieldDone
     /\ Answered
     /\ ExactFill(LastAtt.frames))
    => /\ obs.pay.kind = "bytes"
       /\ Len(obs.pay.bytes) = TotalLen(LastAtt.frames[1].bytes)

\* C7: if a Consecutive Frame carries a sequence number other than the expected
\* one, _read_by_id returns None, whichever read delivered the frame, and makes
\* no transport read after the read that delivered it.
C7_WrongSnReturnsNone ==
    ReadFieldDone =>
        \A n \in 1..Len(obs.att) :
            (StartsWithFF(obs.att[n].frames) /\ HasWrongSn(obs.att[n].frames))
            => /\ obs.pay.kind = "none"
               /\ ~obs.att[n].readOn

\* the first answer of the call was a First Frame that leaves bytes missing,
\* and no Consecutive Frame followed it
FirstFrameAlone ==
    /\ obs.att # <<>>
    /\ Len(obs.att[1].frames) = 1
    /\ StartsWithFF(obs.att[1].frames)
    /\ Len(FirstCollected(obs.att[1].b)) < TotalLen(obs.att[1].b)

\* C8: after a First Frame that no Consecutive Frame follows, with
\* fc_retry_enabled, _read_by_id transmits the request, then ATCFC1, ATFCSD
\* 300005 and ATAL in that order, then the request once more, and nothing else.
C8_ReassertOnceRetryOnce ==
    (ReadFieldDone /\ self.fc_retry_enabled /\ FirstFrameAlone)
    => LET request == RequestCmd(ObsService, ObsIdent, FieldIdentLen(ObsField))
       IN  CmdsOf(SentBy({"uds", "fc"}))
             = <<request, AT_CFC1, AT_FCSD5, AT_AL, request>>

\* a First Frame alone, the reassert and the retry, which a First Frame alone
\* answers again: no second reassert follows
C8_Witness ==
    /\ ReadFieldDone
    /\ self.fc_retry_enabled
    /\ FirstFrameAlone
    /\ Len(obs.att) = 2
    /\ Len(obs.att[2].frames) = 1
    /\ StartsWithFF(obs.att[2].frames)
    /\ Len(SentBy({"fc"})) = 3
    /\ obs.pay.kind = "none"

\* C9: when the answer to the request as last transmitted starts with a First
\* Frame, _read_by_id returns None or exactly total_len bytes that begin with
\* service + 0x40; never part of a multi-frame payload.
C9_NoPartialPayload ==
    (/\ ReadFieldDone
     /\ Answered
     /\ IsFirstFrame(LastAtt.b))
    => \/ obs.pay.kind = "none"
       \/ /\ obs.pay.kind = "bytes"
          /\ Len(obs.pay.bytes) = TotalLen(LastAtt.b)
          /\ obs.pay.bytes[1] = ObsRespSid

\* a First Frame completed by a Consecutive Frame of a later read: the payload
\* returned has the declared length
C9_Witness ==
    /\ ReadFieldDone
    /\ Answered
    /\ IsFirstFrame(LastAtt.b)
    /\ Len(LastAtt.frames) = 2
    /\ LastAtt.frames[2].later
    /\ obs.pay.kind = "bytes"
    /\ Len(obs.pay.bytes) = TotalLen(LastAtt.b)

\* a read_field of a 0x21 field that follows, by less than 1 s and on the same
\* connection, a read_field of the same field that returned a value
SecondRead ==
    /\ ReadFieldDone
    /\ self.sock
    /\ ObsService = \H21
    /\ obs.prev.op = "read_field"
    /\ obs.prev.sid = obs.sid
    /\ obs.prev.kind = "value"
    /\ obs.since < CACHE_TTL

CacheFresh ==
    /\ obs.chk.done
    /\ obs.chk.cur # None
    /\ obs.cache0.tuple = <<obs.chk.cur, ObsService, ObsIdent>>
    /\ obs.cache0.resp # <<>>
    /\ obs.chk.age < CACHE_TTL

CacheWritten ==
    \/ self'.last_tuple # self.last_tuple
    \/ self'.last_resp # self.last_resp
    \/ self'.last_resp_ts > self.last_resp_ts

\* at the cache test of the call, the cached entry was 1 s old or older or was
\* stored under another (current_req_id, service, identifier) key
CacheStale ==
    /\ obs.chk.done
    /\ \/ obs.chk.age >= CACHE_TTL
       \/ obs.cache0.tuple # <<obs.chk.cur, ObsService, ObsIdent>>

\* C11: on an open transport, a read of service 0x22 always transmits its
\* request and leaves the cache as it was; a read of service 0x21 transmits its
\* request whenever the cached entry is 1 s old or older or was stored under
\* another key; and the cache is written only by a read of service 0x21, with
\* the payload of the positive response that read returns, under the key
\* (current_req_id, 0x21, identifier).
C11_CacheOnlyFor21 ==
    /\ [](ReadFieldDone /\ self.sock
            => /\ ObsService = \H22
                    => /\ SentBy({"uds"}) # <<>>
                       /\ self.last_tuple = obs.cache0.tuple
                       /\ self.last_resp = obs.cache0.resp
               /\ (ObsService = \H21 /\ CacheStale) => SentBy({"uds"}) # <<>>)
    /\ [][CacheWritten
            => /\ fr.service = \H21
               /\ pc \in {"uds", "collect"}
               /\ obs'.pay.kind = "bytes"
               /\ obs'.pay.bytes[1] = RespSid(\H21)
               /\ self'.last_resp = obs'.pay.bytes
               /\ self'.last_tuple = <<self.current_req_id, \H21, fr.ident>>
               /\ self'.last_resp_ts = Now]_vars

\* a 0x21 read that found its own entry in the cache, 1 s old or older,
\* transmitted the request and cached the new positive response
C11_Witness ==
    /\ ReadFieldDone
    /\ ObsService = \H21
    /\ obs.chk.done
    /\ obs.cache0.resp # <<>>
    /\ obs.cache0.tuple = <<obs.chk.cur, ObsService, ObsIdent>>
    /\ obs.chk.age >= CACHE_TTL
    /\ Len(SentBy({"uds"})) = 1
    /\ obs.pay.kind = "bytes"
    /\ self.last_resp = obs.pay.bytes

\* the step is a call of _select_frame(r) for a valid 11-bit r that follows a
\* call of _select_frame(r) which returned normally
SecondSelect ==
    /\ pc = "idle"
    /\ pc' # "idle"
    /\ obs'.op = "select_frame"
    /\ obs'.req \in 1..\H7FF
    /\ obs.prev.op = "select_frame"
    /\ obs.prev.kind = "none"
    /\ obs.prev.req = obs'.req

\* C12: a call of _select_frame(r) for a valid 11-bit r that follows a
\* successful call with the same r ends at once, having sent no command and
\* changed no attribute of the client; it returns normally when the transport
\* is open.
C12_SelectIdempotent ==
    [][SecondSelect
        => /\ pc' = "done"
           /\ obs'.sent = <<>>
           /\ self' = self
           /\ self.sock => obs'.result = [kind |-> "none", val |-> 0]]_vars

\* the second of two successive _select_frame(0x79B) calls has returned without
\* sending anything, 0x79B being the header selected
C12_Witness ==
    /\ pc = "done"
    /\ obs.op = "select_frame"
    /\ obs.req = \H79B
    /\ obs.prev.op = "select_frame"
    /\ obs.prev.kind = "none"
    /\ obs.prev.req = obs.req
    /\ self.sock
    /\ self.current_req_id = obs.req
    /\ obs.sent = <<>>
    /\ obs.result.kind = "none"

\* an ensure_session call has returned that was made for an ECU marked
\* session-required or with force set
SessionCallDone ==
    /\ pc = "done"
    /\ obs.op = "ensure_session"
    /\ obs.force \/ SessionRequired(obs.req)

\* C13, as stated: an ensure_session call for r that follows an ensure_session
\* call for r (session-required ECU, or force set) which returned normally
\* transmits no session (0x10) command.
C13_LaterCallsSilent ==
    (/\ SessionCallDone
     /\ obs.prev.op = "ensure_session"
     /\ obs.prev.req = obs.req
     /\ obs.prev.kind = "none"
     /\ obs.prev.force \/ SessionRequired(obs.req))
    => SentBy({"session"}) = <<>>

\* the step transmits a session (0x10) command
SessionSent ==
    \E i \in 1..Len(obs'.sent) : i > Len(obs.sent) /\ obs'.sent[i].by = "session"

\* C13, amended: a session command is transmitted for r only while r is not
\* in session_started, and r is inserted only when it is not in it, by a step
\* that transmitted a session command for r on behalf of a call for a
\* session-required ECU or with force set; so r is inserted at most once and
\* every call made once r is in session_started transmits no session command.
C13_SilentOnceStarted ==
    [][/\ SessionSent => ~(fr.req_id \in self.session_started)
       /\ self'.session_started # self.session_started
            => /\ SessionSent
               /\ ~(fr.req_id \in self.session_started)
               /\ self'.session_started = self.session_started \cup {fr.req_id}
               /\ fr.force \/ SessionRequired(fr.req_id)]_vars

\* an ensure_session call that follows one for the same ECU found the session
\* started: it sent no session command
C13_Witness ==
    /\ SessionCallDone
    /\ self.sock
    /\ obs.prev.op = "ensure_session"
    /\ obs.prev.req = obs.req
    /\ obs.prev.kind = "none"
    /\ obs.req \in self.session_started
    /\ SentBy({"session"}) = <<>>
    /\ obs.result.kind = "none"

\* C14: between calls, whenever current_req_id is set, the request header and
\* the flow-control header last programmed into the adapter equal
\* current_req_id and the programmed response filter equals the response id
\* paired with it.
C14_HeadersMatchCurrent ==
    (pc = "idle" /\ self.current_req_id # None)
    => /\ elm.sh = self.current_req_id
       /\ elm.fcsh = self.current_req_id
       /\ elm.filter = pair_for_frame(self.current_req_id)[2]

\* C15: while the transport stays open, no step of initialize, _select_frame,
\* ensure_session, read_field or TesterPresent removes a request id from
\* session_started.
C15_SessionsPersist ==
    [][(self.sock /\ self'.sock)
        => self.session_started \subseteq self'.session_started]_vars

\* initialize has run to its end on a client that had started the sessions of
\* both ECUs, and both are still started
C15_Witness ==
    /\ pc = "done"
    /\ obs.op = "initialize"
    /\ obs.result.kind = "none"
    /\ Len(obs.sent) = Len(InitCmds)
    /\ self.sock
    /\ self.session_started = {\H7E4, \H79B}

\* C16: the connect() that reopens the transport after a close() leaves the
\* client reset: session_started empty, current_req_id unset, the 0x21
\* response cache empty and last_status unset.
C16_ReopenResets ==
    [][(~self.sock /\ self'.sock)
        => /\ self'.session_started = {}
           /\ self'.current_req_id = None
           /\ self'.last_tuple = <<>>
           /\ self'.last_resp = <<>>
           /\ self'.last_status = "None"]_vars

\* C17: when a transport read fails while read_field is programming the
\* headers or collecting the UDS response, read_field raises to its caller,
\* and after a failed read of the header programming it transmits no UDS
\* request.
C17_ReadFailurePropagates ==
    (ReadFieldDone /\ obs.failed # {})
    => /\ obs.result.kind = "raise"
       /\ "select" \in obs.failed => SentBy({"uds"}) = <<>>

\* the step is a call of read_field
ReadFieldCalled == pc = "idle" /\ pc' # "idle" /\ obs'.op = "read_field"

\* the call ended at once with the exception `kind`, having sent nothing and
\* changed neither the client nor the adapter
RejectedWith(kind) ==
    /\ pc' = "done"
    /\ obs'.result.kind = kind
    /\ obs'.sent = <<>>
    /\ self' = self
    /\ elm' = elm

\* C18: read_field(sid) raises KeyError (unknown field) when sid is not in the
\* field database or the field has no request descriptor, and ValueError
\* (unsupported request) when the descriptor does not begin with 21 or 22; in
\* both cases nothing is transmitted and no attribute of the client changes.
C18_BadFieldRejected ==
    [][ReadFieldCalled
        => LET sid == obs'.sid
               unknown == ~(sid \in DOMAIN Fields) \/ Fields[sid].request_id = <<>>
           IN  /\ unknown => RejectedWith("KeyError")
               /\ (/\ ~unknown
                   /\ ~(SubSeq(Fields[sid].request_id, 1, 2) \in {<<"2","1">>, <<"2","2">>}))
                    => RejectedWith("ValueError")]_vars

\* on a client with a header selected and a session started, a read_field of
\* the field whose request is 1902 has raised ValueError without sending,
\* right after a read_field of an unknown SID had raised KeyError
C18_Witness ==
    /\ pc = "done"
    /\ obs.op = "read_field"
    /\ obs.sid = "dtc"
    /\ obs.result.kind = "ValueError"
    /\ obs.sent = <<>>
    /\ obs.prev.op = "read_field"
    /\ obs.prev.sid = "nope"
    /\ obs.prev.kind = "KeyError"
    /\ self.sock
    /\ self.current_req_id = \H79B
    /\ self.session_started = {\H79B}
    /\ self.last_resp # <<>>

\* C19: if a command of the initialization sequence is answered with something
\* other than an acknowledgement, or is not answered, initialize() raises to
\* its caller and current_req_id is not 0x7E4 when it ends.
C19_InitFailureRaises ==
    (pc = "done" /\ obs.op = "initialize" /\ obs.unacked)
    => /\ obs.result.kind = "raise"
       /\ self.current_req_id # \H7E4

\* C20, as stated: whatever whitespace (spaces, tabs, CR, LF) is inserted into
\* a response R, the parser yields the same bytes for R and for W(R).
C20_WhitespaceInvariant ==
    pc = "parsed" => obs.bw = obs.b

\* the text holds hex digits, whitespace and the prompt only
HexOnly(text) ==
    \A i \in 1..Len(text) : IsHexChar(text[i]) \/ IsSpace(text[i]) \/ text[i] = ">"

\* the number of line breaks in the text
Breaks(text) == Len(SelectSeq(text, LAMBDA ch : ch \in {"\r", "\n"}))

\* every line of the text holds an even number of hex digits
WholeBytes(text) ==
    LET lines == SplitLines(text, <<>>)
    IN  \A i \in 1..Len(lines) :
            Len(SelectSeq(lines[i], LAMBDA ch : IsHexChar(ch))) % 2 = 0

\* C20, amended: for a response R that holds hex digits, whitespace and the
\* prompt only, the parser yields the same bytes for R and for W(R) when W
\* inserts spaces and tabs only, or when every line of R and of W(R) holds an
\* even number of hex digits.
C20_SpacesInHexInvariant ==
    (/\ pc = "parsed"
     /\ HexOnly(fr.text)
     /\ \/ Breaks(fr.spaced) = Breaks(fr.text)
        \/ WholeBytes(fr.text) /\ WholeBytes(fr.spaced))
    => obs.bw = obs.b

\* the glued response 0662 was parsed with a blank inserted inside a byte and a
\* line break between its two bytes, and gave the same two bytes
C20_Witness ==
    /\ pc = "parsed"
    /\ fr.text = <<"0","6","6","2","\r",">">>
    /\ fr.spaced = <<"0"," ","6","\n","6","2","\r",">">>
    /\ obs.b = <<\H06, \H62>>
    /\ obs.bw = obs.b

\* the two-digit pairs of a run of hex digits, a trailing single digit dropped
RECURSIVE WholePairs(_)
WholePairs(h) ==
    IF Len(h) < 2 THEN <<>>
    ELSE <<16 * HexVal(h[1]) + HexVal(h[2])>> \o WholePairs(SubSeq(h, 3, Len(h)))

\* the bytes C21 gives for the lines of a response
RECURSIVE PairsOfLines(_)
PairsOfLines(lines) ==
    IF lines = <<>> THEN <<>>
    ELSE IF \E k \in StatusTokens : Contains(Upper(Head(lines)), k)
         THEN PairsOfLines(Tail(lines))
         ELSE WholePairs(SelectHex(Head(lines))) \o PairsOfLines(Tail(lines))

\* C21: the parser outputs, for every line without a status token, the
\* consecutive two-digit pairs of the line's hex digits in order, the trailing
\* nibble of an odd number of digits contributing no byte; lines with a status
\* token contribute nothing.
C21_OddNibbleDiscarded ==
    pc = "parsed" => obs.b = PairsOfLines(LinesOf(fr.text))

\* C22: when the read after the 0x22 request of DID 0x2002 brings the line
\* 7E8 06 62 20 02 0F A0 00 00 (the response CAN id, then the frame; spaced or
\* glued), read_field decodes the data after the positive-response header:
\* bits 24..39 at resolution 0.02 give 80.00.
C22_CanIdPrefixDecodes ==
    (/\ ReadFieldDone
     /\ obs.sid = "soc"
     /\ Len(obs.att) = 1
     /\ obs.att[1].b \in {Received(HeadedSpaced).b, Received(HeadedGlued).b})
    => obs.result = [kind |-> "value", val |-> 8000]

\* the eight bits of a byte, most significant first
ByteBits(b) ==
    << (b \div 128) % 2, (b \div 64) % 2, (b \div 32) % 2, (b \div 16) % 2,
       (b \div 8) % 2, (b \div 4) % 2, (b \div 2) % 2, b % 2 >>

\* the bit string of data, bit 0 being the MSB of byte 0
RECURSIVE BitString(_)
BitString(data) ==
    IF data = <<>> THEN <<>> ELSE ByteBits(Head(data)) \o BitString(Tail(data))

\* C23: for every byte string and every partition of its bits into ranges
\* (s, e), the values the bit extractor returns for the ranges, each taken as
\* e-s+1 bits and concatenated in order, are the bit string of the data (every
\* prefix of the partition giving the matching prefix of the bit string); the
\* bit-by-bit form used for long responses returns the same values.
C23_PartitionReconstructs ==
    pc = "bits"
    => /\ obs.bits = SubSeq(BitString(fr.data), 1, fr.next)
       /\ fr.next = 8 * Len(fr.data) => obs.bits = BitString(fr.data)
       /\ obs.parts > 0
            => obs.last.v = extract_bits(fr.data, obs.last.s, obs.last.e)

\* the two bytes A5 3C cut into three ranges, the last one (bits 5..15)
\* crossing the byte boundary, and put together again
C23_Witness ==
    /\ pc = "bits"
    /\ fr.data = <<\HA5, \H3C>>
    /\ fr.next = 16
    /\ obs.parts = 3
    /\ obs.last.s = 5
    /\ obs.last.e = 15
    /\ obs.bits = <<1,0,1,0,0,1,0,1, 0,0,1,1,1,1,0,0>>

\* the step transmits TesterPresent
TpSent ==
    \E i \in 1..Len(obs'.sent) : i > Len(obs.sent) /\ obs'.sent[i].by = "tp"

\* the step ends a read_field call that returns a value or None, on an open
\* transport
ReadFieldReturns ==
    /\ pc # "done"
    /\ pc' = "done"
    /\ obs'.op = "read_field"
    /\ obs'.result.kind \in {"value", "none"}
    /\ self.sock

\* the step leaves last_status, the cache and session_started as they were
TpLeavesState ==
    /\ self'.last_status = self.last_status
    /\ self'.last_tuple = self.last_tuple
    /\ self'.last_resp = self.last_resp
    /\ self'.session_started = self.session_started

\* C24, as stated: a read_field call that returns transmits TesterPresent
\* once if tp_interval has elapsed since the adapter last received
\* TesterPresent, and not at all otherwise; the exchange changes neither
\* last_status nor the cache nor session_started.
C24_TpOncePerInterval ==
    [][/\ TpSent => /\ Now - elm.tp >= TP_INTERVAL
                    /\ TpLeavesState
       /\ (ReadFieldReturns /\ ~TpSent) => Now - elm'.tp < TP_INTERVAL]_vars

\* C24, amended: a read_field call that returns a value or None on an open
\* transport transmits TesterPresent exactly once, as its last command, if at
\* the end of its UDS read tp_interval has elapsed since the last TesterPresent
\* whose response was read (last_tp), and not at all otherwise; the exchange
\* changes neither last_status nor the cache nor session_started.
C24_TpWhenDue ==
    [][/\ TpSent => /\ pc = "tp"
                    /\ pc' = "done"
                    /\ SentBy({"tp"}) = <<>>
                    /\ Now - self.last_tp >= TP_INTERVAL
                    /\ TpLeavesState
       /\ (ReadFieldReturns /\ ~TpSent) => Now - self'.last_tp < TP_INTERVAL]_vars

\* a read_field answered by a negative response has returned None and sent
\* TesterPresent once, the LBC session and the cache of earlier calls untouched
C24_Witness ==
    /\ ReadFieldDone
    /\ obs.sid = "soc"
    /\ Answered
    /\ LastAtt.b = Neg22
    /\ obs.result = NoneResult
    /\ Len(SentBy({"tp"})) = 1
    /\ obs.sent[Len(obs.sent)].by = "tp"
    /\ self.last_tp = Now
    /\ obs.prev.op = "read_field"
    /\ self.session_started = {\H79B}
    /\ self.last_resp # <<>>

\* an initialize() call has returned normally
InitializeDone == pc = "done" /\ obs.op = "initialize" /\ obs.result.kind = "none"

\* the step is a call of _select_frame(0x7E4) on an open transport while
\* current_req_id is 0x7E4
SelectDefaultAgain ==
    /\ pc = "idle"
    /\ pc' # "idle"
    /\ obs'.op = "select_frame"
    /\ obs'.req = \H7E4
    /\ self.sock
    /\ self.current_req_id = \H7E4

C26_StrictIssueOrder ==
    ReadFieldDone => \A n \in 1..Len(obs.att) : obs.att[n].own

\* the session modes in the order C27 gives them
ModeBytes == <<\HC0, \HF2, \HF3, \H81>>

\* some line of the reply holds the byte 0x50 immediately followed by `mode`
HasPositive(frames, mode) ==
    \E n \in 1..Len(frames) : \E i \in 1..(Len(frames[n]) - 1) :
        frames[n][i] = \H50 /\ frames[n][i + 1] = mode

\* C27: the k-th session request of a call is 0x10 with the k-th of the modes
\* 0xC0, 0xF2, 0xF3, 0x81; the request id is inserted into session_started if
\* and only if the reply holds the byte 0x50 immediately followed by that mode
\* byte, and then no further mode is sent; an unaccepted mode is followed by
\* the next one, and after the fourth the call goes on without an error.
C27_SessionModes ==
    [][pc = "session"
        => LET mode == ModeBytes[fr.k]
               accepted == HasPositive(elm'.answer, mode)
           IN  /\ obs'.sent[Len(obs'.sent)].cmd = HexText(<<\H02, \H10, mode>>)
               /\ accepted <=> self'.session_started # self.session_started
               /\ accepted => /\ pc' # "session"
                              /\ self'.session_started =
                                     self.session_started \cup {fr.req_id}
               /\ (~accepted /\ elm'.answer # <<>> /\ fr.k < 4)
                    => pc' = "session" /\ fr'.k = fr.k + 1
               /\ (~accepted /\ fr.k = 4) => pc' # "session"
               /\ obs'.result.kind # "raise"]_vars

\* the pair C28 gives for the 11-bit frame id f
ClaimedPair(f) ==
    LET known == { e \in Ecus : e.req = f \/ e.resp = f }
    IN  IF known # {}
        THEN LET e == CHOOSE e \in known : TRUE IN <<e.req, e.resp>>
        ELSE <<(f - 8) % 2048, f>>

\* the first header command of the call, if it sent one
FirstSelectCmd == SentBy({"select"})[1].cmd

\* C28: the pair resolved for a frame id f (11 bits) is the (request, response)
\* pair of the ECU that has f as its request or response id, and else the
\* heuristic pair ((f - 8) mod 0x800, f); its request id is the one handed to
\* _select_frame: the header the call programs is that request id, and when
\* the call has programmed the adapter, the header, the filter and
\* current_req_id are those of the pair.
C28_PairResolution ==
    (pc = "done" /\ obs.op = "ensure_session")
    => LET pair == ClaimedPair(obs.frame % 2048)
       IN  /\ obs.req = pair[1]
           /\ SentBy({"select"}) # <<>>
                => FirstSelectCmd = AT_SH \o Hex3(pair[1])
           /\ Len(SentBy({"select"})) = 3
                => /\ CmdsOf(SentBy({"select"}))[3] = AT_CRA \o Hex3(pair[2])
                   /\ "select" \notin obs.failed
                        => /\ self.current_req_id = pair[1]
                           /\ elm.sh = pair[1]
                           /\ elm.fcsh = pair[1]
                           /\ elm.filter = pair[2]

\* ensure_session for the frame id 0x005 of no ECU has programmed the heuristic
\* pair, the request id wrapped around to 0x7FD, on a client that had started
\* the session of the LBC through its request id 0x79B
C28_Witness ==
    /\ pc = "done"
    /\ obs.op = "ensure_session"
    /\ obs.frame = \H005
    /\ obs.req = \H7FD
    /\ Len(SentBy({"select"})) = 3
    /\ self.current_req_id = \H7FD
    /\ elm.sh = \H7FD
    /\ elm.filter = \H005
    /\ \H79B \in self.session_started

\* C29: one read_field call, hence one top-level _read_by_id call, transmits
\* its UDS request at most twice and the reassert sequence (ATCFC1, ATFCSD
\* 300005, ATAL) at most once, also when the retried request is again answered
\* by a First Frame alone; with fc_retry_enabled false it transmits the request
\* at most once and no reassert command; and the retry-active flag is false
\* whenever no _read_by_id call is in progress.
C29_RetryBounded ==
    /\ Len(SentBy({"uds"})) <= 2
    /\ Len(SentBy({"fc"})) <= 3
    /\ CmdsOf(SentBy({"fc"})) = SubSeq(<<AT_CFC1, AT_FCSD5, AT_AL>>, 1, Len(SentBy({"fc"})))
    /\ Len(SentBy({"uds"})) = 2 => Len(SentBy({"fc"})) = 3
    /\ ~self.fc_retry_enabled
         => /\ Len(SentBy({"uds"})) <= 1
            /\ SentBy({"fc"}) = <<>>
    /\ pc \notin {"uds", "collect", "fc"} => ~self.fc_retry_active

\* the request was retried after the reassert and answered by a First Frame
\* alone a second time: the call has ended with None and the flag is false
C29_Witness ==
    /\ ReadFieldDone
    /\ Len(SentBy({"uds"})) = 2
    /\ CmdsOf(SentBy({"fc"})) = <<AT_CFC1, AT_FCSD5, AT_AL>>
    /\ Len(obs.att) = 2
    /\ \A n \in 1..2 : /\ Len(obs.att[n].frames) = 1
                       /\ StartsWithFF(obs.att[n].frames)
    /\ obs.result = NoneResult
    /\ ~self.fc_retry_active

\* the step sleeps delay_before_21_ms
Slept == Len(obs'.slept) > Len(obs.slept)

\* the step ends a header switch of _select_frame
Switched ==
    /\ pc = "select"
    /\ self.current_req_id # fr.req_id
    /\ self'.current_req_id = fr.req_id

\* C30: the delay_before_21_ms sleep is made only in a read of service 0x21,
\* with the delay > 0, while the just-switched mark of a header switch of
\* _select_frame is set, and it clears the mark; the mark is set by a header
\* switch only.  So after a header switch the sleep is made before at most one
\* 0x21 request, never before a 0x22 request, and not again until the next
\* header switch.
C30_DelayOneShot ==
    [][/\ Slept => /\ Len(obs'.slept) = Len(obs.slept) + 1
                   /\ obs'.op = "read_field"
                   /\ FieldService(Fields[obs'.sid]) = \H21
                   /\ self.delay_before_21_ms > 0
                   /\ self.just_switched \/ Switched
                   /\ ~self'.just_switched
       /\ (~self.just_switched /\ self'.just_switched) => Switched
       /\ (obs'.op = "read_field" /\ FieldService(Fields[obs'.sid]) = \H22)
            => obs'.slept = <<>>]_vars

\* a read of the 0x21 field that switched the header to the LBC slept once
\* before its first request and not again before the request retried after
\* a First Frame alone
C30_Witness ==
    /\ ReadFieldDone
    /\ obs.sid = "lbc"
    /\ Len(SentBy({"select"})) = 3
    /\ obs.slept = <<50>>
    /\ Len(SentBy({"uds"})) = 2
    /\ ~self.just_switched
    /\ self.current_req_id = \H79B

\* the read_field call that returned switched the header to the battery
\* controller and transmitted its 0x21 request
SwitchedToLbc ==
    /\ ReadFieldDone
    /\ ObsField.frame_id = \H7BB
    /\ ObsService = \H21
    /\ Len(SentBy({"select"})) = 3
    /\ self.current_req_id = pair_for_frame(\H7BB)[1]
    /\ SentBy({"uds"}) # <<>>

\* C31: with first_21_delay_by_req[0x7BB] configured, a read_field of a 0x21
\* field of frame 0x7BB that switches the adapter to the battery controller
\* sleeps the configured override delay before its request.
C31_OverrideBeforeFirst21 ==
    (SwitchedToLbc /\ \H7BB \in DOMAIN self.first_21_delay_by_req)
    => obs.slept = <<self.first_21_delay_by_req[\H7BB]>>

\* the last delay slept by the step
LastSlept == obs'.slept[Len(obs'.slept)]

\* C32: selecting an ECU never changes delay_before_21_ms, and the sleep
\* before a 0x21 request to an ECU that has no per-ECU delay configured is
\* never the per-ECU delay of another ECU.
C32_OverrideStaysWithEcu ==
    [][/\ self'.delay_before_21_ms = self.delay_before_21_ms
       /\ (Slept /\ self'.current_req_id \notin DOMAIN self.first_21_delay_by_req)
            => LastSlept # LbcDelay]_vars

\* C33: for a single-frame response with PCI byte 0x0N, the payload
\* _read_by_id returns is exactly the N bytes that follow the PCI byte,
\* starting at the positive-response service id; padding after them is left out.
C33_SingleFramePayload ==
    (/\ ReadFieldDone
     /\ Len(obs.att) = 1
     /\ obs.att[1].status = "keep"
     /\ Len(obs.att[1].frames) = 1
     /\ IsSfPositive(obs.att[1].frames[1].bytes, ObsField))
    => LET frame == obs.att[1].frames[1].bytes
       IN  obs.pay = [kind |-> "bytes", bytes |-> SubSeq(frame, 2, 1 + frame[1])]

\* C34: whenever _read_by_id returns a payload (single frame, reassembled, or
\* from the 0x21 cache), last_status is unset when the call returns.
C34_PayloadClearsStatus ==
    (ReadFieldDone /\ obs.pay.kind = "bytes") => self.last_status = "None"

\* the answer to the last request was FfSoc, then in a later read the
\* Consecutive Frame numbered 1 with the four missing bytes and padding
CompletedWithPadding ==
    /\ ReadFieldDone
    /\ Answered
    /\ Len(LastAtt.frames) = 2
    /\ LastAtt.frames[1].bytes = FfSoc
    /\ LastAtt.frames[2].later
    /\ \E p \in PadBytes : LastAtt.frames[2].bytes = CfPadded(p)

\* C35: once the bytes collected reach the declared total length the padding
\* that follows the last needed data byte in the same read does not matter:
\* the reassembly is returned whole whatever the padding bytes are.
C35_PaddingIgnored ==
    CompletedWithPadding
    => obs.pay = [kind |-> "bytes",
                  bytes |-> SubSeq(FfSoc, 3, 8) \o SubSeq(CfPadded(0), 2, 5)]

\* the adapter's request header, flow-control header and response filter are
\* programmed for the ECU pair of the field read
ProgrammedForField ==
    LET pair == pair_for_frame(ObsField.frame_id)
    IN  /\ elm.sh = pair[1]
        /\ elm.fcsh = pair[1]
        /\ elm.filter = pair[2]

\* C36: a read_field call transmits its UDS request, and decodes a value from
\* the response, only while the adapter is programmed for the ECU pair
\* resolved from the field's frame_id; a value taken from the 0x21 cache was
\* cached under the request id of that pair.
C36_ReadFromFieldEcu ==
    ReadFieldDone
    => /\ SentBy({"uds"}) # <<>> => ProgrammedForField
       /\ (obs.result.kind = "value" /\ SentBy({"uds"}) = <<>>)
            => obs.cache0.tuple[1] = pair_for_frame(ObsField.frame_id)[1]

\* C37: the poller's state changes only from WAIT_DONGLE to FAST_CAPTURE on a
\* successful ping, from FAST_CAPTURE to SLOW_MONITOR when a poll round
\* captured both values or FAST_POLL_MAX_WINDOW seconds have passed since
\* FAST_CAPTURE was entered, and from SLOW_MONITOR to WAIT_DONGLE on a failed
\* ping; and no pass of the loop in WAIT_DONGLE polls the ELM.
C37_PollerTransitions ==
    [][/\ fr'.state # fr.state
            => \/ /\ fr.state = STATE_WAIT_DONGLE
                  /\ fr'.state = STATE_FAST_CAPTURE
                  /\ obs'.ping = "ok"
               \/ /\ fr.state = STATE_FAST_CAPTURE
                  /\ fr'.state = STATE_SLOW_MONITOR
                  /\ \/ obs'.soc # None /\ obs'.km # None
                     \/ obs'.age >= FAST_POLL_MAX_WINDOW
               \/ /\ fr.state = STATE_SLOW_MONITOR
                  /\ fr'.state = STATE_WAIT_DONGLE
                  /\ obs'.ping = "fail"
       /\ obs'.polled => fr.state # STATE_WAIT_DONGLE
       /\ fr.state = STATE_WAIT_DONGLE => ~obs'.polled]_vars

\* the poller is back in WAIT_DONGLE after a failed ping in SLOW_MONITOR, which
\* it had reached because the fast window ran out with the odometer never
\* captured
C37_Witness ==
    /\ pc = "main"
    /\ fr.state = STATE_WAIT_DONGLE
    /\ obs.ping = "fail"
    /\ fr.fast_age = FAST_POLL_MAX_WINDOW
    /\ obs.ever_soc
    /\ ~obs.ever_km
    /\ fr.last_km = None

\* C38: the poller leaves FAST_CAPTURE for the slow cadence as soon as SoC and
\* odometer have each been captured at least once since the dongle became
\* reachable, in the same poll round or in different ones: it is never in
\* FAST_CAPTURE with both captured.
C38_SlowOnceBothCaptured ==
    (pc = "main" /\ fr.state = STATE_FAST_CAPTURE)
    => ~(obs.ever_soc /\ obs.ever_km)

\* C39: an exception of try_poll_once (connection refused, socket timeout)
\* does not end the poller: after it the main loop still runs, until Ctrl+C.
C39_PollFailureSurvived ==
    (obs.op = "poller" /\ obs.raised) => pc \in {"main", "interrupted"}

====
